---- MODULE Spec2Model ----
(***************************************************************************)
(* A model of rift-engine's JSON-RPC protocol engine                       *)
(* (rift/rpc/jsonrpc.py, class RpcServer): the serve loop, the two         *)
(* correlation tables, the handler tasks and the lifecycle status.         *)
(*                                                                         *)
(* Scheduling is asyncio's: one thread, tasks interleave only at awaits.   *)
(* _handle_message is synchronous, so no task steps between the messages   *)
(* of one datagram; a task created by create_task starts after every task  *)
(* created before it (the ready queue is FIFO); Task.cancel() on a task    *)
(* that has not started makes it end without running any of its body; on a *)
(* suspended task it makes the next resumption raise CancelledError, and   *)
(* it cancels the future the task awaits.  Writing to the transport        *)
(* (_send) is taken as one step with the code before it.                   *)
(***************************************************************************)
EXTENDS Integers, Sequences, FiniteSets

\* ------------------------------------------------------------------ bounds
\* Inbound messages the peer sends in one run of the inbound specification.
MaxMsgs == 3
\* Inbound messages the peer sends in one run of the outbound specification.
MaxOutMsgs == 3
\* Outbound requests issued in one run.
MaxReqs == 2
\* Messages in one datagram.
MaxBatch == 2

\* ------------------------------------------------------- program constants
\* request_counter = 1000 * server_count, for the first engine instance.
CounterSeed == 1000
\* Request.id defaults to None: a notification.  0 stands for None.
NoId == 0

\* ------------------------------------------------------------ input sets
InitModes == {"NoInit", "ExpectInit", "SendInit"}
\* Ids the peer uses for its requests.
PeerIds == {1, 2}
\* Ids this engine can give its own requests within the bound.
OutIds == (CounterSeed + 1)..(CounterSeed + MaxReqs)
\* Methods registered with the dispatcher (rpc_method handlers).
Registered == {"initialize", "shutdown", "foo"}
\* Methods request() is called with.
OutMethods == {"initialize", "bar"}

\* A request as decoded by ofdict(Request, message): pok says whether its
\* params decode (for $/cancelRequest: are a dict with an "id" key), target
\* is params["id"] of a $/cancelRequest.
PeerRequests ==
    {[method |-> "initialize", id |-> 1, pok |-> TRUE, target |-> NoId]}
    \cup {[method |-> "shutdown", id |-> 2, pok |-> TRUE, target |-> NoId]}
    \cup {[method |-> "exit", id |-> NoId, pok |-> TRUE, target |-> NoId]}
    \cup {[method |-> "$/cancelRequest", id |-> NoId, pok |-> TRUE, target |-> i] : i \in PeerIds}
    \cup {[method |-> "$/cancelRequest", id |-> NoId, pok |-> FALSE, target |-> NoId]}
    \cup {[method |-> "foo", id |-> i, pok |-> TRUE, target |-> NoId] : i \in PeerIds \cup {NoId}}
    \cup {[method |-> "foo", id |-> 1, pok |-> FALSE, target |-> NoId]}
    \cup {[method |-> "nope", id |-> i, pok |-> TRUE, target |-> NoId] : i \in {1, NoId}}

PeerResponses ==
    {[id |-> i, kind |-> "result", val |-> "a"] : i \in OutIds}
    \cup {[id |-> i, kind |-> "error", val |-> "b"] : i \in OutIds}

\* ----------------------------------------------------------------- state
VARIABLES
    init_mode,        \* RpcServer.init_mode
    status,           \* RpcServer.status
    request_counter,  \* RpcServer.request_counter
    my_requests,      \* RpcServer.my_requests: its keys, in insertion order
    fut,              \* the future of every outbound request ever issued
    tasks,            \* the tasks created by _handle_message that are not done,
                      \* in creation order
    init_task,        \* the _send_init task of SendInit mode
    init_id,          \* the id of the initialize request _send_init issued
    loop,             \* where serve_forever is
    batch_left,       \* messages of the current datagram not yet handled
    exit_cause,       \* the exception (or return) that ended the serve loop
    finally_raised,   \* the finally block of serve_forever raised InvalidStateError
    wire,             \* the last message written to the transport
    log,              \* the last line logged by _handle_message
    nmsgs             \* inbound messages received so far

vars == <<init_mode, status, request_counter, my_requests, fut, tasks, init_task,
          init_id, loop, batch_left, exit_cause, finally_raised, wire, log, nmsgs>>

\* ---------------------------------------------------- RangeSet state
\* (rift/server/selection.py) one RangeSet object and the last call on it.
VARIABLES
    ranges,           \* RangeSet.ranges
    rs_op,            \* the last call: "new", "add", "normalize", "apply_edit"
    rs_arg,           \* its argument: the range added, the edit applied
    rs_prev,          \* RangeSet.ranges before the call
    rs_mapped,        \* apply_edit: its local set `ranges` before RangeSet(ranges)
    rs_calls          \* calls made so far

rsvars == <<ranges, rs_op, rs_arg, rs_prev, rs_mapped, rs_calls>>

\* -------------------------------------------------- TextStream state
\* (rift/util/TextStream.py) one source TextStream, its producer, and what
\* reads it: an `async for` consumer, the two workers of split_once, or the
\* generator of asplit.
VARIABLES
    stream,               \* the source: _buffer, _eof, _waiter is not None, and
                      \* whether the future a coroutine awaits has its result
    ts_fed,           \* all the text feed_data accepted, in order
    ts_err,           \* what the last feed_data raised
    ts_feeds,         \* feed_data calls so far
    ts_reader,        \* where the `async for` consumer is
    ts_chunks,        \* the chunks __anext__ returned, in order
    ts_split,         \* split_once / asplit: separator, sub-streams, workers
    readers,          \* the tasks that call read, readexactly, readuntil or
                      \* __anext__: the call, where it is, what it returned,
                      \* and the state of the future it awaits
    waiter_of,        \* the reader whose future _waiter holds (0: none of them)
    on_cancel_calls   \* calls of the _on_cancel callback so far

\* The readers' part of the state.
rdvars == <<readers, waiter_of, on_cancel_calls>>

tsvars == <<stream, ts_fed, ts_err, ts_feeds, ts_reader, ts_chunks, ts_split, rdvars>>

\* ------------------------------------------------------- Helper state
\* (rift/server/helper.py) one Helper, the Session of the specification: its
\* worker task, the caller, the peer that answers the apply-edit requests, and
\* the change notifications of the document.
VARIABLES
    helper,           \* the Helper's fields (status, task is not None, cursor,
                      \* ranges, change_futures), where its worker task is, the
                      \* locals of the worker (delta, attempts), whether the
                      \* task has a cancellation to deliver, whether on_change
                      \* is registered
    h_run             \* the run: whether the Helper is in the LspServer's
                      \* active_helpers (active), the morph/accept or
                      \* morph/reject handler that is at an await (handler),
                      \* the revert edits sent (reverts), whether the feed
                      \* task of the provider's TextStream has failed (feeder),
                      \* the provider's deltas, how many were taken,
                      \* the start cursor, the last apply_insert_text call for
                      \* each delta taken,
                      \* whether every edit so far was applied and confirmed
                      \* with nothing foreign and no cancel (clean), the calls
                      \* made from outside, who asked for the cancellation

hvars == <<helper, h_run>>

\* The variables of the library objects, which the protocol engine never touches.
libvars == <<rsvars, tsvars, hvars>>
\* What a RangeSet never touches, and what a TextStream never touches.
notrs == <<vars, tsvars, hvars>>
notts == <<vars, rsvars, hvars>>
\* What a Helper never touches.
noth == <<vars, rsvars, tsvars>>

\* ------------------------------------------------------------- helpers
\* class ErrorCode: the number of each error the engine writes.
ErrorCode(name) ==
    CASE name = "parse_error" -> -32700
      [] name = "invalid_request" -> -32600
      [] name = "method_not_found" -> -32601
      [] name = "invalid_params" -> -32602
      [] name = "internal_error" -> -32603
      [] name = "server_error" -> -32000
      [] name = "server_not_initialized" -> -32002
      [] name = "request_failed" -> -32803
      [] name = "request_cancelled" -> -32800

Range(s) == {s[i] : i \in DOMAIN s}

RemoveAt(s, i) == SubSeq(s, 1, i - 1) \o SubSeq(s, i + 1, Len(s))

PendingFut == [st |-> "pending", val |-> ""]

NoWrite == [type |-> "none", id |-> NoId, code |-> ""]

\* Response.to_bytes() / Request.to_bytes() as written by _send.
ResponseMsg(id, code) == [type |-> "response", id |-> id, code |-> code]
RequestMsg(id, method) == [type |-> "request", id |-> id, code |-> method]
NotificationMsg(method) == [type |-> "notification", id |-> NoId, code |-> method]

\* their_requests: the tasks registered under their request id.
their_requests == {t \in DOMAIN tasks : tasks[t].reg = "req"}

\* notification_tasks, the _send_init task aside.
notification_tasks == {t \in DOMAIN tasks : tasks[t].reg = "notif"}

\* Task.cancel() on a task that is not done.
cancel(t) == [t EXCEPT !.must_cancel = TRUE]

\* RpcServer.__init__
Init ==
    /\ init_mode \in InitModes
    /\ status = IF init_mode = "NoInit" THEN "running" ELSE "preinit"
    /\ request_counter = CounterSeed
    /\ my_requests = <<>>
    /\ fut = <<>>
    /\ tasks = <<>>
    /\ init_task = "none"
    /\ init_id = NoId
    /\ loop = "idle"
    /\ batch_left = 0
    /\ exit_cause = "none"
    /\ finally_raised = FALSE
    /\ wire = NoWrite
    /\ log = ""
    /\ nmsgs = 0

\* Tasks run only while the serve loop is suspended (in recv) or not running.
TasksMayStep == loop # "dispatch"

\* ------------------------------------------------------------ request()
\* The status check of request(): raises RuntimeError unless running, or
\* SendInit mode sending initialize.
request_allowed(method) ==
    \/ status = "running"
    \/ init_mode = "SendInit" /\ method = "initialize"

\* Variant of request that writes the request without registering its future.
request_unregistered(method) ==
    /\ request_allowed(method)
    /\ request_counter' = request_counter + 1
    /\ fut' = Append(fut, PendingFut)
    /\ my_requests' = my_requests
    /\ wire' = RequestMsg(request_counter + 1, method)

\* request() up to its await of the future: counter, future, table, _send.
request(method) ==
    /\ request_allowed(method)
    /\ request_counter' = request_counter + 1
    /\ fut' = Append(fut, PendingFut)
    /\ my_requests' = Append(my_requests, request_counter + 1)
    /\ wire' = RequestMsg(request_counter + 1, method)

\* fut is indexed by id - CounterSeed.
FutOf(f, id) == f[id - CounterSeed]
Issued == {CounterSeed + k : k \in DOMAIN fut}

\* One id of the bound is kept for the initialize request of _send_init.
ReservedIds == IF init_mode = "SendInit" /\ init_id = NoId THEN 1 ELSE 0

\* A caller (any coroutine of the application) calls request().
Request(method) ==
    /\ TasksMayStep
    /\ request_counter + ReservedIds < CounterSeed + MaxReqs
    /\ request(method)
    /\ UNCHANGED <<init_mode, status, tasks, init_task, init_id, loop, batch_left,
                   exit_cause, finally_raised, log, nmsgs>>

\* The status check of notify(): raises RuntimeError unless running.
notify_allowed == status = "running"

\* A caller calls notify(): the notification is written.
Notify(method) ==
    /\ TasksMayStep
    /\ notify_allowed
    /\ wire' = NotificationMsg(method)
    /\ UNCHANGED <<init_mode, status, request_counter, my_requests, fut, tasks, init_task,
                   init_id, loop, batch_left, exit_cause, finally_raised, log, nmsgs>>

\* The task awaiting request()'s future is cancelled: the future it awaits is
\* cancelled with it and stays in my_requests.
CancelCaller(id) ==
    /\ TasksMayStep
    /\ id \in Issued
    /\ id # init_id
    /\ FutOf(fut, id).st = "pending"
    /\ fut' = [fut EXCEPT ![id - CounterSeed] = [st |-> "cancelled", val |-> ""]]
    /\ UNCHANGED <<init_mode, status, request_counter, my_requests, tasks, init_task,
                   init_id, loop, batch_left, exit_cause, finally_raised, wire, log,
                   nmsgs>>

\* ------------------------------------------------------------ _shutdown()
\* _shutdown() on the tasks: every task of their_requests and of
\* notification_tasks is cancelled.
\* Variant of shutdown_tasks that forgets notification_tasks.
shutdown_tasks_requests_only(ts) ==
    [t \in DOMAIN ts |-> IF ts[t].reg = "req" THEN cancel(ts[t]) ELSE ts[t]]

shutdown_tasks(ts) ==
    [t \in DOMAIN ts |-> IF ts[t].reg \in {"req", "notif"} THEN cancel(ts[t]) ELSE ts[t]]

\* Variant of shutdown_init_task that leaves the _send_init task alone.
shutdown_init_task_kept(it) == it

\* _shutdown() on the _send_init task, which is in notification_tasks until
\* it is done; a cancelled _send_init never sets the status.
shutdown_init_task(it) == IF it \in {"created", "waiting"} THEN "cancelled" ELSE it

\* Cancelling _send_init while it awaits its request's future cancels the future.
shutdown_fut(f, it) ==
    IF it = "waiting" /\ FutOf(f, init_id).st = "pending"
    THEN [f EXCEPT ![init_id - CounterSeed] = [st |-> "cancelled", val |-> ""]]
    ELSE f

\* _shutdown(): the engine's state after it, from the state before it.
shutdown(e) ==
    [fut |-> shutdown_fut(e.fut, e.init_task),
     tasks |-> shutdown_tasks(e.tasks),
     init_task |-> shutdown_init_task(e.init_task),
     status |-> "shutdown",
     raised |-> FALSE]

\* -------------------------------------------- serve_forever: the finally block
\* for fut in self.my_requests.values(): fut.set_exception(e)
\* Future.set_exception raises InvalidStateError on a future that is done,
\* which ends the iteration there.
RECURSIVE fail_futures(_, _, _)
fail_futures(f, ids, exc) ==
    IF ids = <<>> THEN [fut |-> f, raised |-> FALSE]
    ELSE IF FutOf(f, Head(ids)).st # "pending" THEN [fut |-> f, raised |-> TRUE]
    ELSE fail_futures([f EXCEPT ![Head(ids) - CounterSeed] = [st |-> "error", val |-> exc]],
                      Tail(ids), exc)

\* The finally block: fail the futures of my_requests, then _shutdown();
\* an InvalidStateError from set_exception leaves the block before _shutdown().
finally_block(e, exc) ==
    LET r == fail_futures(e.fut, my_requests, exc) IN
    IF r.raised
    THEN [fut |-> r.fut, tasks |-> e.tasks, init_task |-> e.init_task,
          status |-> e.status, raised |-> TRUE]
    ELSE shutdown([e EXCEPT !.fut = r.fut])

\* The exception the finally block sees in sys.exc_info(): the one being
\* raised, or none after a return, and then ConnectionError is used.
FutureError(cause) ==
    IF cause \in {"TransportClosedOK", "ExitNotification"} THEN "ConnectionError" ELSE cause

Engine == [fut |-> fut, tasks |-> tasks, init_task |-> init_task, status |-> status,
           raised |-> FALSE]

\* The serve loop ends with `cause`, from engine state e.
EndLoop(e, cause) ==
    LET r == finally_block(e, FutureError(cause)) IN
    /\ fut' = r.fut
    /\ tasks' = r.tasks
    /\ init_task' = r.init_task
    /\ status' = r.status
    /\ finally_raised' = r.raised
    /\ exit_cause' = cause
    /\ loop' = "ended"

\* ------------------------------------------------------ serve_forever
\* serve_forever() up to its first recv: in SendInit mode the _send_init
\* task is created and added to notification_tasks.
ServeForever ==
    /\ loop = "idle"
    /\ loop' = "recv"
    /\ init_task' = IF init_mode = "SendInit" THEN "created" ELSE init_task
    /\ UNCHANGED <<init_mode, status, request_counter, my_requests, fut, tasks, init_id,
                   batch_left, exit_cause, finally_raised, wire, log, nmsgs>>

\* transport.recv() returns a datagram of n messages.
RecvDatagram(n, max) ==
    /\ loop = "recv"
    /\ nmsgs + n <= max
    /\ nmsgs' = nmsgs + n
    /\ batch_left' = n
    /\ loop' = "dispatch"
    /\ UNCHANGED <<init_mode, status, request_counter, my_requests, fut, tasks, init_task,
                   init_id, exit_cause, finally_raised, wire, log>>

\* The datagram is not JSON, or is neither an object nor a list: a parse_error
\* Response (with no id) is written and the loop continues.
RecvMalformed(max) ==
    /\ loop = "recv"
    /\ nmsgs + 1 <= max
    /\ nmsgs' = nmsgs + 1
    /\ wire' = ResponseMsg(NoId, "parse_error")
    /\ UNCHANGED <<init_mode, status, request_counter, my_requests, fut, tasks, init_task,
                   init_id, loop, batch_left, exit_cause, finally_raised, log>>

\* transport.recv() raises TransportClosedOK (return) or TransportClosedError,
\* TransportError (raise).
RecvClosed(cause) ==
    /\ loop = "recv"
    /\ EndLoop(Engine, cause)
    /\ UNCHANGED <<init_mode, request_counter, my_requests, init_id, batch_left, wire,
                   log, nmsgs>>

TransportEnds == {"TransportClosedOK", "TransportError"}

\* ------------------------------------------------------ _handle_message
\* The for loop of serve_forever goes on to the next message of the datagram,
\* or back to recv after the last one.
NextMessage ==
    /\ batch_left' = batch_left - 1
    /\ loop' = IF batch_left = 1 THEN "recv" ELSE "dispatch"

\* An element of the datagram that is not an object: `"result" in message`
\* raises TypeError, serve_forever writes a parse_error Response and goes back
\* to recv; the rest of the datagram is not handled.
HandleBadFrame ==
    /\ loop = "dispatch"
    /\ wire' = ResponseMsg(NoId, "parse_error")
    /\ batch_left' = 0
    /\ loop' = "recv"
    /\ UNCHANGED <<init_mode, status, request_counter, my_requests, fut, tasks, init_task,
                   init_id, exit_cause, finally_raised, log, nmsgs>>

\* my_requests.pop(id)
pop(ids, id) == SelectSeq(ids, LAMBDA x : x # id)

\* Variant of complete without the fut.done() test.
complete_overwrite(f, res) ==
    [f EXCEPT ![res.id - CounterSeed] = [st |-> res.kind, val |-> res.val]]

\* The future of a popped request: left alone when done, else completed with
\* the error or the result of the Response.
complete(f, res) ==
    IF FutOf(f, res.id).st # "pending" THEN f
    ELSE [f EXCEPT ![res.id - CounterSeed] = [st |-> res.kind, val |-> res.val]]

\* Variant of handle_response that gives a Response with an unknown id to the
\* oldest request of the table.
handle_response_oldest(res) ==
    IF res.id \notin Range(my_requests)
    THEN /\ log' = "received response for unknown request"
         /\ IF my_requests = <<>>
            THEN UNCHANGED <<my_requests, fut>>
            ELSE /\ my_requests' = Tail(my_requests)
                 /\ fut' = complete(fut, [res EXCEPT !.id = Head(my_requests)])
    ELSE /\ my_requests' = pop(my_requests, res.id)
         /\ fut' = complete(fut, res)
         /\ log' = IF FutOf(fut, res.id).st # "pending"
                   THEN "received response for already completed request"
                   ELSE log

\* _handle_message on a Response.
handle_response(res) ==
    IF res.id \notin Range(my_requests)
    THEN /\ log' = "received response for unknown request"
         /\ UNCHANGED <<my_requests, fut>>
    ELSE /\ my_requests' = pop(my_requests, res.id)
         /\ fut' = complete(fut, res)
         /\ log' = IF FutOf(fut, res.id).st # "pending"
                   THEN "received response for already completed request"
                   ELSE log

HandleResponse(res) ==
    /\ loop = "dispatch"
    /\ handle_response(res)
    /\ NextMessage
    /\ UNCHANGED <<init_mode, status, request_counter, tasks, init_task, init_id,
                   exit_cause, finally_raised, wire, nmsgs>>

\* asyncio.create_task(self._on_request(req))
NewTask(req, reg) ==
    [method |-> req.method, id |-> req.id, pok |-> req.pok, target |-> req.target,
     st |-> "created", must_cancel |-> FALSE, reg |-> reg]

\* `id in self.their_requests`
id_in_use(id) == \E t \in their_requests : tasks[t].id = id

\* Where _handle_message puts the new task: their_requests, notification_tasks,
\* or nowhere when it raises invalid_request for an id already in use.
registration(req) ==
    IF req.id = NoId THEN "notif" ELSE IF id_in_use(req.id) THEN "none" ELSE "req"

\* _handle_message on a Request that is not exit: _shutdown() for a shutdown
\* request, then the task is created, then it is registered.
handle_request(req) ==
    LET e1 == IF req.method = "shutdown" THEN shutdown(Engine) ELSE Engine
        reg == registration(req)
    IN  [e1 EXCEPT !.tasks = Append(e1.tasks, NewTask(req, reg)),
                   !.raised = (reg = "none")]

\* _handle_message on a Request.  exit raises ExitNotification; an id already in
\* use raises ResponseError, which serve_forever re-raises (except Exception).
HandleRequest(req) ==
    /\ loop = "dispatch"
    /\ IF req.method = "exit"
       THEN /\ EndLoop(Engine, "ExitNotification")
            /\ batch_left' = batch_left - 1
            /\ log' = IF status # "shutdown"
                      THEN "exit notification received before shutdown request"
                      ELSE log
       ELSE LET e == handle_request(req) IN
            /\ UNCHANGED log
            /\ IF e.raised
               THEN /\ EndLoop(e, "ResponseError")
                    /\ batch_left' = batch_left - 1
               ELSE /\ fut' = e.fut
                    /\ tasks' = e.tasks
                    /\ init_task' = e.init_task
                    /\ status' = e.status
                    /\ NextMessage
                    /\ UNCHANGED <<exit_cause, finally_raised>>
    /\ UNCHANGED <<init_mode, request_counter, my_requests, init_id, wire, nmsgs>>

\* ------------------------------------------------------ _on_request_core
ResponseErrors == {"server_not_initialized", "internal_error", "invalid_request",
                   "invalid_params", "method_not_found", "request_failed"}

\* _on_request_core after the status checks: $/cancelRequest, the dispatcher
\* lookup, the decoding of the params, the dispatch.
core_running(req) ==
    IF req.method = "$/cancelRequest"
    THEN IF req.id # NoId THEN "invalid_request"
         ELSE IF ~req.pok THEN "invalid_params"
         ELSE "cancel"
    ELSE IF req.method \notin Registered THEN "method_not_found"
    ELSE IF ~req.pok THEN "invalid_params"
    ELSE "dispatch"

\* Variant of core_shutdown without the lifecycle check.
core_shutdown_open(req) == core_running(req)

\* _on_request_core in the shutdown state.
core_shutdown(req) ==
    IF req.method = "shutdown"
    THEN IF "shutdown" \in Registered THEN "dispatch" ELSE "return"
    ELSE "invalid_request"

\* _on_request_core: the status it leaves and what it does: raises a
\* ResponseError, returns None, cancels a task, or dispatches to the handler.
on_request_core(req, st) ==
    IF st = "preinit"
    THEN IF init_mode = "ExpectInit"
         THEN IF req.method = "initialize"
              THEN [status |-> "running", does |-> core_running(req)]
              ELSE [status |-> st, does |-> "server_not_initialized"]
         ELSE IF init_mode = "SendInit"
         THEN [status |-> st, does |-> "server_not_initialized"]
         ELSE [status |-> st, does |-> "internal_error"]
    ELSE IF st = "shutdown"
    THEN [status |-> st, does |-> core_shutdown(req)]
    ELSE [status |-> st, does |-> core_running(req)]

\* _on_request: what is written to the transport for each way
\* _on_request_core ends.  Only the CancelledError and the normal branches look
\* at is_notification.
on_request(req, outcome) ==
    IF outcome = "CancelledError"
    THEN IF req.id = NoId THEN "none" ELSE "request_cancelled"
    ELSE IF outcome \in ResponseErrors THEN outcome
    ELSE IF outcome = "Exception" THEN "server_error"
    ELSE IF req.id = NoId THEN "none" ELSE "result"

\* Variant of cancel_request that ignores the id.
cancel_request_all(ts, id) ==
    [t \in DOMAIN ts |-> IF ts[t].reg = "req" THEN cancel(ts[t]) ELSE ts[t]]

\* t.cancel("requested by peer") on their_requests.get(id), if any.
cancel_request(ts, id) ==
    [t \in DOMAIN ts |-> IF ts[t].reg = "req" /\ ts[t].id = id THEN cancel(ts[t]) ELSE ts[t]]

\* _send of the Response _on_request chose, if any.
send_response(task, outcome) ==
    IF on_request(task, outcome) = "none" THEN wire
    ELSE ResponseMsg(task.id, on_request(task, outcome))

\* The task is done: its done callback takes it out of their_requests or of
\* notification_tasks.
done(ts, t) == RemoveAt(ts, t)

\* The first step of a task: a task cancelled before it started ends without
\* running; otherwise _on_request_core runs up to the handler's first await.
TaskStart(t) ==
    /\ TasksMayStep
    /\ tasks[t].st = "created"
    /\ init_task # "created"
    /\ \A u \in 1..(t - 1) : tasks[u].st # "created"
    /\ IF tasks[t].must_cancel
       THEN /\ tasks' = done(tasks, t)
            /\ UNCHANGED <<status, wire>>
       ELSE LET r == on_request_core(tasks[t], status) IN
            /\ status' = r.status
            /\ IF r.does = "dispatch"
               THEN /\ tasks' = [tasks EXCEPT ![t].st = "running"]
                    /\ UNCHANGED wire
               ELSE IF r.does = "cancel"
               THEN /\ tasks' = done(cancel_request(tasks, tasks[t].target), t)
                    /\ wire' = send_response(tasks[t], "return")
               ELSE /\ tasks' = done(tasks, t)
                    /\ wire' = send_response(tasks[t], r.does)
    /\ UNCHANGED <<init_mode, request_counter, my_requests, fut, init_task, init_id,
                   loop, batch_left, exit_cause, finally_raised, log, nmsgs>>

\* How a handler can end when it is not cancelled: it returns, raises a
\* ResponseError of its own, or raises another exception.
HandlerOutcomes == {"return", "request_failed", "Exception"}

\* What ends a running task: its handler, or CancelledError when cancelled.
outcome_of(task, o) == IF task.must_cancel THEN "CancelledError" ELSE o

\* The handler of a running task ends; a cancelled task is resumed with
\* CancelledError instead.
TaskFinish(t, o) ==
    /\ TasksMayStep
    /\ tasks[t].st = "running"
    /\ wire' = send_response(tasks[t], outcome_of(tasks[t], o))
    /\ tasks' = done(tasks, t)
    /\ UNCHANGED <<init_mode, status, request_counter, my_requests, fut, init_task,
                   init_id, loop, batch_left, exit_cause, finally_raised, log, nmsgs>>

\* ------------------------------------------------------------ _send_init
\* _send_init up to the await in request("initialize").
InitTaskStart ==
    /\ TasksMayStep
    /\ init_task = "created"
    /\ request("initialize")
    /\ init_id' = request_counter + 1
    /\ init_task' = "waiting"
    /\ UNCHANGED <<init_mode, status, tasks, loop, batch_left, exit_cause,
                   finally_raised, log, nmsgs>>

\* _send_init after its request completed: with a result, the status becomes
\* running and the initialized notification is written; with an error the task
\* fails.
InitTaskResume ==
    /\ TasksMayStep
    /\ init_task = "waiting"
    /\ FutOf(fut, init_id).st \in {"result", "error"}
    /\ IF FutOf(fut, init_id).st = "result"
       THEN /\ status' = "running"
            /\ wire' = NotificationMsg("initialized")
            /\ init_task' = "done"
       ELSE /\ init_task' = "failed"
            /\ UNCHANGED <<status, wire>>
    /\ UNCHANGED <<init_mode, request_counter, my_requests, fut, tasks, init_id, loop,
                   batch_left, exit_cause, finally_raised, log, nmsgs>>

\* =============================================================== RangeSet
\* rift/server/selection.py.  Position and Range come from rift.lsp.types,
\* which is not part of the sources at hand: they are taken as the trusted
\* primitives the specification describes (positions compare and shift,
\* ranges are half-open), on one line of text, so that a position is its
\* character offset.

\* Positions of the document.
MaxPos == 4
\* Calls on the RangeSet in one run.
MaxCalls == 3
\* Length of the text of an edit.
MaxText == 2

Position == 0..MaxPos
\* Range(start, end), start <= end; a range with start = end is empty.
Ranges == {r \in [start : Position, end : Position] : r.start <= r.end}
\* edit.range is None: the whole document is replaced.
NoRange == [start |-> 1, end |-> 0]

\* `pos in range`, half-open.
InRange(pos, r) == r.start <= pos /\ pos < r.end
\* len(range)
RangeLen(r) == r.end - r.start
\* Range.union(items), items not empty.
RangeUnion(rs) ==
    [start |-> CHOOSE a \in {r.start : r \in rs} : \A r \in rs : a <= r.start,
     end |-> CHOOSE b \in {r.end : r \in rs} : \A r \in rs : r.end <= b]
\* range + delta
RangeShift(r, d) == [start |-> r.start + d, end |-> r.end + d]

\* The orders in which `for r in <set>` can visit a set.
Orders(S) ==
    {f \in [1..Cardinality(S) -> S] : \A i, j \in 1..Cardinality(S) : i # j => f[i] # f[j]}

\* The loop of add over self.ranges visited in the given order.
RECURSIVE add_loop(_, _, _)
add_loop(order, acc, kept) ==
    IF order = <<>> THEN kept \cup {acc}
    ELSE LET r == Head(order) IN
         IF InRange(acc.end, r) \/ InRange(acc.start, r)
         THEN add_loop(Tail(order), RangeUnion({acc, r}), kept)
         ELSE add_loop(Tail(order), acc, kept \cup {r})

\* RangeSet.add(range): self.ranges afterwards.
add(order, range) == add_loop(order, range, {})

\* RangeSet(list of Range): every self.ranges the adds can end with.
RECURSIVE RangeSetOf(_, _)
RangeSetOf(list, cur) ==
    IF list = <<>> THEN {cur}
    ELSE UNION {RangeSetOf(Tail(list), add(o, Head(list))) : o \in Orders(cur)}

\* The first loop of normalize over self.ranges visited in the given order:
\* the list `classes`.
RECURSIVE normalize_loop(_, _)
normalize_loop(order, classes) ==
    IF order = <<>> THEN classes
    ELSE LET r == Head(order)
             touches(c) == InRange(c.end, r) \/ InRange(c.start, r)
             ins == SelectSeq(classes, touches)
             outs == SelectSeq(classes, LAMBDA c : ~touches(c))
         IN  IF RangeLen(r) = 0 THEN normalize_loop(Tail(order), classes)
             ELSE IF Len(ins) > 0
             THEN normalize_loop(Tail(order), Append(outs, RangeUnion({r} \cup Range(ins))))
             ELSE normalize_loop(Tail(order), Append(outs, r))

\* RangeSet.normalize(): every ranges attribute the returned RangeSet can have.
normalize(order) == RangeSetOf(normalize_loop(order, <<>>), {})

\* The body of the loop of apply_edit: what one range adds to the local set.
apply_edit_range(range, edit, n) ==
    LET delta == n - RangeLen(edit) IN
    IF edit.end <= range.start THEN {RangeShift(range, delta)}
    ELSE IF edit.start >= range.end THEN {range}
    ELSE (IF InRange(edit.start, range)
          THEN {[start |-> range.start, end |-> edit.start]} ELSE {})
         \cup (IF InRange(edit.end, range)
               THEN {[start |-> edit.start + n, end |-> range.end + delta]} ELSE {})

\* apply_edit: its local set `ranges` after the loop.
apply_edit_ranges(rs, edit, n) == UNION {apply_edit_range(r, edit, n) : r \in rs}

\* RangeSet()
RsInit ==
    /\ ranges = {}
    /\ rs_op = "new"
    /\ rs_arg = [range |-> NoRange, n |-> 0]
    /\ rs_prev = {}
    /\ rs_mapped = {}
    /\ rs_calls = 0

\* self.add(range)
RsAdd(range) ==
    /\ rs_calls < MaxCalls
    /\ \E order \in Orders(ranges) : ranges' = add(order, range)
    /\ rs_op' = "add"
    /\ rs_arg' = [range |-> range, n |-> 0]
    /\ rs_prev' = ranges
    /\ rs_mapped' = {}
    /\ rs_calls' = rs_calls + 1
    /\ UNCHANGED notrs

\* self = self.normalize()
RsNormalize ==
    /\ rs_calls < MaxCalls
    /\ \E order \in Orders(ranges) : \E out \in normalize(order) : ranges' = out
    /\ rs_op' = "normalize"
    /\ rs_arg' = [range |-> NoRange, n |-> 0]
    /\ rs_prev' = ranges
    /\ rs_mapped' = {}
    /\ rs_calls' = rs_calls + 1
    /\ UNCHANGED notrs

\* self = self.apply_edit(edit), edit.text of length n.
RsApplyEdit(edit, n) ==
    /\ rs_calls < MaxCalls
    /\ IF edit = NoRange
       THEN /\ ranges' = ranges
            /\ rs_mapped' = {}
       ELSE /\ rs_mapped' = apply_edit_ranges(ranges, edit, n)
            /\ \E order \in Orders(rs_mapped') :
                  \E out \in RangeSetOf(order, {}) : ranges' = out
    /\ rs_op' = "apply_edit"
    /\ rs_arg' = [range |-> edit, n |-> n]
    /\ rs_prev' = ranges
    /\ rs_calls' = rs_calls + 1
    /\ UNCHANGED notrs

\* ============================================================ TextStream
\* rift/util/TextStream.py.  A text is a sequence of characters.

\* feed_data calls in one run.
MaxFeeds == 3
\* Characters in the text of one feed_data call.
MaxChunk == 2

Chars == {"x", "s"}
RECURSIVE TextsUpTo(_)
TextsUpTo(n) ==
    IF n = 0 THEN {<<>>} ELSE {<<>>} \cup {Append(t, c) : t \in TextsUpTo(n - 1), c \in Chars}
\* The texts feed_data is called with.
Chunks == TextsUpTo(MaxChunk)

\* TextStream(): __init__
NewStream == [buffer |-> <<>>, eof |-> FALSE, waiter |-> FALSE, woken |-> FALSE]

\* _wakeup_waiter(): the future of the waiting coroutine gets its result.
wakeup_waiter(s) ==
    IF s.waiter THEN [s EXCEPT !.waiter = FALSE, !.woken = TRUE] ELSE s

\* feed_eof()
feed_eof(s) == IF s.eof THEN s ELSE wakeup_waiter([s EXCEPT !.eof = TRUE])

\* Variant of feed_data that replaces the buffer.
feed_data_overwrite(s, data) ==
    IF s.eof THEN [s |-> s, raised |-> "RuntimeError"]
    ELSE IF Len(data) = 0 THEN [s |-> s, raised |-> "none"]
    ELSE [s |-> wakeup_waiter([s EXCEPT !.buffer = data]), raised |-> "none"]

\* Variant of feed_data without the test for the empty text.
feed_data_always_wakes(s, data) ==
    IF s.eof THEN [s |-> s, raised |-> "RuntimeError"]
    ELSE [s |-> wakeup_waiter([s EXCEPT !.buffer = @ \o data]), raised |-> "none"]

\* feed_data(data): the stream afterwards and what it raised.
feed_data(s, data) ==
    IF s.eof THEN [s |-> s, raised |-> "RuntimeError"]
    ELSE IF Len(data) = 0 THEN [s |-> s, raised |-> "none"]
    ELSE [s |-> wakeup_waiter([s EXCEPT !.buffer = @ \o data]), raised |-> "none"]

\* _wait_for_data() up to its await: the waiter is created.
wait_for_data(s) == [s EXCEPT !.waiter = TRUE]

\* _wait_for_data() after its await: the finally block.
waited_for_data(s) == [s EXCEPT !.waiter = FALSE, !.woken = FALSE]

\* pop_all()
pop_all(s) == [text |-> s.buffer, s |-> [s EXCEPT !.buffer = <<>>]]

\* The loop of __anext__ from its top: a chunk is returned, StopAsyncIteration
\* is raised, or the coroutine waits for data.
anext(s) ==
    IF Len(s.buffer) # 0 THEN [does |-> "return", text |-> pop_all(s).text, s |-> pop_all(s).s]
    ELSE IF s.eof THEN [does |-> "StopAsyncIteration", text |-> <<>>, s |-> s]
    ELSE [does |-> "wait", text |-> <<>>, s |-> wait_for_data(s)]

\* The source is not split.
NoSplit == [op |-> "none", sep |-> <<>>, subs |-> <<>>, pcs |-> <<>>]

\* The separators split_once and asplit are called with.
Seps == {<<"s">>, <<"s", "s">>}

Min(a, b) == IF a <= b THEN a ELSE b
Max(a, b) == IF a >= b THEN a ELSE b

\* str[:n] and str[n:] of Python, n negative counting from the end.
slice_to(b, n) ==
    IF n >= 0 THEN SubSeq(b, 1, Min(n, Len(b))) ELSE SubSeq(b, 1, Max(Len(b) + n, 0))
slice_from(b, n) ==
    IF n >= 0 THEN SubSeq(b, Min(n, Len(b)) + 1, Len(b))
    ELSE SubSeq(b, Max(Len(b) + n, 0) + 1, Len(b))

\* str.find(sep): the lowest index (from 0) where sep occurs, or -1.
find(b, sep) ==
    LET at == {i \in 0..(Len(b) - Len(sep)) : SubSeq(b, i + 1, i + Len(sep)) = sep}
    IN  IF at = {} THEN -1 ELSE CHOOSE i \in at : \A j \in at : i <= j

\* TextStream.pop(n)
ts_pop(st, n) == [text |-> slice_to(st.buffer, n), s |-> [st EXCEPT !.buffer = slice_from(@, n)]]

\* at_eof()
at_eof(st) == st.eof /\ Len(st.buffer) = 0

\* Variant of before_worker that keeps nothing back while no separator is in
\* the buffer.
before_worker_flush_all(st, before, sep) ==
    LET i == find(st.buffer, sep) IN
    IF i >= 0
    THEN [s |-> ts_pop(st, i).s, pc |-> "done",
          sub |-> feed_eof(feed_data(before, ts_pop(st, i).text).s)]
    ELSE IF st.eof
    THEN [s |-> pop_all(st).s, pc |-> "done",
          sub |-> feed_eof(feed_data(before, pop_all(st).text).s)]
    ELSE [s |-> wait_for_data(pop_all(st).s), pc |-> "waiting",
          sub |-> feed_data(before, pop_all(st).text).s]

\* One pass of the loop of before_worker (split_once), and of the inner loop
\* of asplit: the source, the sub-stream, and where the coroutine is then.
before_worker(st, before, sep) ==
    LET i == find(st.buffer, sep) IN
    IF i >= 0
    THEN [s |-> ts_pop(st, i).s, pc |-> "done",
          sub |-> feed_eof(feed_data(before, ts_pop(st, i).text).s)]
    ELSE IF st.eof
    THEN [s |-> pop_all(st).s, pc |-> "done",
          sub |-> feed_eof(feed_data(before, pop_all(st).text).s)]
    ELSE IF Len(st.buffer) > Len(sep)
    THEN [s |-> wait_for_data(ts_pop(st, -Len(sep)).s), pc |-> "waiting",
          sub |-> feed_data(before, ts_pop(st, -Len(sep)).text).s]
    ELSE [s |-> wait_for_data(st), pc |-> "waiting", sub |-> before]

\* One pass of the last loop of after_worker.
after_worker_loop(st, after) ==
    IF st.eof
    THEN [s |-> pop_all(st).s, pc |-> "done",
          sub |-> feed_eof(feed_data(after, pop_all(st).text).s)]
    ELSE [s |-> wait_for_data(pop_all(st).s), pc |-> "waiting",
          sub |-> feed_data(after, pop_all(st).text).s]

\* after_worker once before_task is done: at_eof, readexactly(len(sep)), the
\* comparison with sep, and the first pass of the loop.
after_worker(st, after, sep) ==
    IF at_eof(st) THEN [s |-> st, pc |-> "done", sub |-> feed_eof(after)]
    ELSE IF Len(st.buffer) < Len(sep) /\ ~st.eof
    THEN [s |-> wait_for_data(st), pc |-> "reading", sub |-> after]
    ELSE IF Len(st.buffer) < Len(sep)
    THEN [s |-> pop_all(st).s, pc |-> "EOFError", sub |-> after]
    ELSE IF ts_pop(st, Len(sep)).text # sep
    THEN [s |-> ts_pop(st, Len(sep)).s, pc |-> "RuntimeError", sub |-> after]
    ELSE after_worker_loop(ts_pop(st, Len(sep)).s, after)

\* The tasks that read the source.
Readers == {1, 2}

\* A task that has not called a read yet.
NoRead == [kind |-> "none", n |-> 0, sep |-> <<>>]
IdleReader == [op |-> NoRead, pc |-> "idle", out |-> <<>>, fut |-> "none"]

\* _wakeup_waiter() as the readers see it: when the call took a waiter out of
\* _waiter (sa: the stream after it) and the waiter is a reader's future, the
\* future gets its result unless it is cancelled.
wakeup_reader(s, sa) ==
    IF s.waiter /\ ~sa.waiter /\ waiter_of # 0
    THEN [readers EXCEPT ![waiter_of].fut = IF @ = "cancelled" THEN @ ELSE "done"]
    ELSE readers

\* TextStream(), nothing fed, nobody reading, not split.
TsInit ==
    /\ stream = NewStream
    /\ ts_fed = <<>>
    /\ ts_err = "none"
    /\ ts_feeds = 0
    /\ ts_reader = "idle"
    /\ ts_chunks = <<>>
    /\ ts_split = NoSplit
    /\ readers = [r \in Readers |-> IdleReader]
    /\ waiter_of = 0
    /\ on_cancel_calls = 0

\* The producer calls feed_data(data).
TsFeed(data) ==
    /\ ts_feeds < MaxFeeds
    /\ ts_feeds' = ts_feeds + 1
    /\ stream' = feed_data(stream, data).s
    /\ ts_err' = feed_data(stream, data).raised
    /\ ts_fed' = IF feed_data(stream, data).raised = "none" THEN ts_fed \o data ELSE ts_fed
    /\ readers' = wakeup_reader(stream, feed_data(stream, data).s)
    /\ waiter_of' = IF feed_data(stream, data).s.waiter THEN waiter_of ELSE 0
    /\ UNCHANGED <<ts_reader, ts_chunks, ts_split, on_cancel_calls>>
    /\ UNCHANGED notts

\* The producer calls feed_eof().
TsClose ==
    /\ ~stream.eof
    /\ stream' = feed_eof(stream)
    /\ readers' = wakeup_reader(stream, feed_eof(stream))
    /\ waiter_of' = IF feed_eof(stream).waiter THEN waiter_of ELSE 0
    /\ UNCHANGED <<ts_fed, ts_err, ts_feeds, ts_reader, ts_chunks, ts_split, on_cancel_calls>>
    /\ UNCHANGED notts

\* What a pass of the loop of __anext__ does to the consumer.
anext_step(s) ==
    /\ stream' = anext(s).s
    /\ ts_chunks' = IF anext(s).does = "return" THEN Append(ts_chunks, anext(s).text)
                    ELSE ts_chunks
    /\ ts_reader' = CASE anext(s).does = "return" -> "idle"
                      [] anext(s).does = "StopAsyncIteration" -> "stopped"
                      [] anext(s).does = "wait" -> "waiting"

\* The consumer's `async for` calls __anext__.
TsAnext ==
    /\ ts_reader = "idle"
    /\ anext_step(stream)
    /\ UNCHANGED <<ts_fed, ts_err, ts_feeds, ts_split, rdvars>>
    /\ UNCHANGED notts

\* The consumer is resumed in _wait_for_data and goes round the loop again.
TsAnextResume ==
    /\ ts_reader = "waiting"
    /\ stream.woken
    /\ anext_step(waited_for_data(stream))
    /\ UNCHANGED <<ts_fed, ts_err, ts_feeds, ts_split, rdvars>>
    /\ UNCHANGED notts

\* split_once(separator): the two sub-streams and the two tasks are created;
\* neither task has run yet.
TsSplitOnce(sep) ==
    /\ ts_split.op = "none"
    /\ ts_split' = [op |-> "split_once", sep |-> sep, subs |-> <<NewStream, NewStream>>,
                    pcs |-> <<"created", "created">>]
    /\ UNCHANGED <<stream, ts_fed, ts_err, ts_feeds, ts_reader, ts_chunks, rdvars>>
    /\ UNCHANGED notts

\* What a pass of a worker's loop leaves: the source, the worker's sub-stream
\* (k = 1: before, k = 2: after) and the worker's position.
split_step(k, w) ==
    /\ stream' = w.s
    /\ ts_split' = [ts_split EXCEPT !.subs[k] = w.sub, !.pcs[k] = w.pc]

\* before_task runs: from its start, or resumed in _wait_for_data.
BeforeWorker ==
    /\ ts_split.op = "split_once"
    /\ \/ /\ ts_split.pcs[1] = "created"
          /\ split_step(1, before_worker(stream, ts_split.subs[1], ts_split.sep))
       \/ /\ ts_split.pcs[1] = "waiting"
          /\ stream.woken
          /\ split_step(1, before_worker(waited_for_data(stream), ts_split.subs[1],
                                         ts_split.sep))
    /\ UNCHANGED <<ts_fed, ts_err, ts_feeds, ts_reader, ts_chunks, rdvars>>
    /\ UNCHANGED notts

\* after_task runs: from its start (after before_task's first run, the loop
\* runs tasks in the order of their creation), resumed when before_task is
\* done, or resumed in _wait_for_data.
AfterWorker ==
    /\ ts_split.op = "split_once"
    /\ \/ /\ ts_split.pcs[2] = "created"
          /\ ts_split.pcs[1] \notin {"created", "done"}
          /\ ts_split' = [ts_split EXCEPT !.pcs[2] = "await before_task"]
          /\ UNCHANGED stream
       \/ /\ \/ ts_split.pcs[2] = "created"
             \/ ts_split.pcs[2] = "await before_task"
          /\ ts_split.pcs[1] = "done"
          /\ split_step(2, after_worker(stream, ts_split.subs[2], ts_split.sep))
       \/ /\ ts_split.pcs[2] = "reading"
          /\ stream.woken
          /\ split_step(2, after_worker(waited_for_data(stream), ts_split.subs[2],
                                        ts_split.sep))
       \/ /\ ts_split.pcs[2] = "waiting"
          /\ stream.woken
          /\ split_step(2, after_worker_loop(waited_for_data(stream), ts_split.subs[2]))
    /\ UNCHANGED <<ts_fed, ts_err, ts_feeds, ts_reader, ts_chunks, rdvars>>
    /\ UNCHANGED notts

\* ---- read, readexactly, readuntil and __anext__ called by tasks
\* The largest n of readexactly(n).
MaxRead == 3

\* The reads a task calls.
ReadOps ==
    {[kind |-> "read", n |-> k, sep |-> <<>>] : k \in {-1, 0, 1, 2}}
    \cup {[kind |-> "readexactly", n |-> k, sep |-> <<>>] : k \in 0..MaxRead}
    \cup {[kind |-> "readuntil", n |-> 0, sep |-> sep] : sep \in Seps}
    \cup {[kind |-> "anext", n |-> 0, sep |-> <<>>]}

\* What a read returns at once.
returns(s, text) == [s |-> s, does |-> "return", text |-> text]

\* _wait_for_data() called by a read, up to its await: RuntimeError when a
\* waiter is recorded or the stream is closed, else the waiter is created.
await_data(s) ==
    IF s.waiter \/ s.eof THEN [s |-> s, does |-> "RuntimeError", text |-> <<>>]
    ELSE [s |-> wait_for_data(s), does |-> "wait", text |-> <<>>]

\* read(n) from its start, or (resumed) from its return out of _wait_for_data.
read(s, n, resumed) ==
    IF n = 0 THEN returns(s, <<>>)
    ELSE IF n < 0
    THEN IF ~s.eof THEN await_data(s) ELSE returns(pop_all(s).s, pop_all(s).text)
    ELSE IF ~resumed /\ Len(s.buffer) = 0 /\ ~s.eof THEN await_data(s)
    ELSE returns(ts_pop(s, n).s, ts_pop(s, n).text)

\* Variant of readexactly that returns what there is when the stream is closed.
readexactly_short(s, n) ==
    IF n = 0 THEN returns(s, <<>>)
    ELSE IF n < 0 THEN [s |-> s, does |-> "ValueError", text |-> <<>>]
    ELSE IF Len(s.buffer) < n /\ ~s.eof THEN await_data(s)
    ELSE returns(ts_pop(s, n).s, ts_pop(s, n).text)

\* readexactly(n): a pass of its loop and what follows it.
readexactly(s, n) ==
    IF n = 0 THEN returns(s, <<>>)
    ELSE IF n < 0 THEN [s |-> s, does |-> "ValueError", text |-> <<>>]
    ELSE IF Len(s.buffer) < n /\ ~s.eof THEN await_data(s)
    ELSE IF Len(s.buffer) < n THEN [s |-> pop_all(s).s, does |-> "EOFError", text |-> <<>>]
    ELSE returns(ts_pop(s, n).s, ts_pop(s, n).text)

\* readuntil(separator): a pass of its loop.
readuntil(s, sep) ==
    LET i == find(s.buffer, sep) IN
    IF Len(sep) = 0 THEN [s |-> s, does |-> "ValueError", text |-> <<>>]
    ELSE IF i >= 0 THEN returns(ts_pop(s, i + Len(sep)).s, ts_pop(s, i + Len(sep)).text)
    ELSE IF s.eof THEN [s |-> pop_all(s).s, does |-> "EOFError", text |-> <<>>]
    ELSE await_data(s)

\* __anext__ called by a task: a pass of its loop, with _wait_for_data's tests.
anext_task(s) ==
    IF Len(s.buffer) # 0 THEN returns(pop_all(s).s, pop_all(s).text)
    ELSE IF s.eof THEN [s |-> s, does |-> "StopAsyncIteration", text |-> <<>>]
    ELSE await_data(s)

\* The read op run from its start or from its resumption, up to its end or
\* its next await.
read_pass(s, op, resumed) ==
    CASE op.kind = "read" -> read(s, op.n, resumed)
      [] op.kind = "readexactly" -> readexactly(s, op.n)
      [] op.kind = "readuntil" -> readuntil(s, op.sep)
      [] op.kind = "anext" -> anext_task(s)

\* What a run of reader r's read leaves: the stream, the reader, the waiter.
reader_step(r, op, w) ==
    /\ stream' = w.s
    /\ readers' = [readers EXCEPT ![r] =
                      [op |-> op,
                       pc |-> IF w.does = "wait" THEN "waiting" ELSE w.does,
                       out |-> w.text,
                       fut |-> IF w.does = "wait" THEN "pending" ELSE "none"]]
    /\ waiter_of' = IF w.does = "wait" THEN r
                    ELSE IF w.s.waiter THEN waiter_of ELSE 0

\* Task r calls a read (the second task after the first).
RdStart(r, op) ==
    /\ readers[r].pc = "idle"
    /\ \A q \in Readers : q < r => readers[q].pc # "idle"
    /\ reader_step(r, op, read_pass(stream, op, FALSE))
    /\ UNCHANGED <<ts_fed, ts_err, ts_feeds, ts_reader, ts_chunks, ts_split, on_cancel_calls>>
    /\ UNCHANGED notts

\* Task r is resumed with the result of its future: the finally block of
\* _wait_for_data clears _waiter, and the read goes on.
RdResume(r) ==
    /\ readers[r].pc = "waiting"
    /\ readers[r].fut = "done"
    /\ reader_step(r, readers[r].op, read_pass(waited_for_data(stream), readers[r].op, TRUE))
    /\ UNCHANGED <<ts_fed, ts_err, ts_feeds, ts_reader, ts_chunks, ts_split, on_cancel_calls>>
    /\ UNCHANGED notts

\* Task r is cancelled while its read waits.
RdCancel(r) ==
    /\ readers[r].pc = "waiting"
    /\ readers[r].fut # "cancelled"
    /\ readers' = [readers EXCEPT ![r].fut = "cancelled"]
    /\ UNCHANGED <<stream, ts_fed, ts_err, ts_feeds, ts_reader, ts_chunks, ts_split,
                   waiter_of, on_cancel_calls>>
    /\ UNCHANGED notts

\* The cancelled task r runs: CancelledError is raised at the await of
\* _wait_for_data, whose finally block clears _waiter; only __anext__ catches
\* it, calls _on_cancel and raises it again.
RdCancelled(r) ==
    /\ readers[r].pc = "waiting"
    /\ readers[r].fut = "cancelled"
    /\ stream' = waited_for_data(stream)
    /\ waiter_of' = 0
    /\ readers' = [readers EXCEPT ![r].pc = "CancelledError"]
    /\ on_cancel_calls' = IF readers[r].op.kind = "anext" THEN on_cancel_calls + 1
                          ELSE on_cancel_calls
    /\ UNCHANGED <<ts_fed, ts_err, ts_feeds, ts_reader, ts_chunks, ts_split>>
    /\ UNCHANGED notts

\* Sub-streams one asplit generator is let to yield.
MaxSubs == 4

\* One pass of the inner loop of asplit: the source, the current sub-stream
\* ts, and how the pass ends (break, return, or the await in _wait_for_data).
asplit_loop(st, ts, sep) ==
    LET i == find(st.buffer, sep) IN
    IF i >= 0
    THEN [s |-> ts_pop(st, i).s, pc |-> "break",
          sub |-> feed_eof(feed_data(ts, ts_pop(st, i).text).s)]
    ELSE IF st.eof
    THEN [s |-> pop_all(st).s, pc |-> "return",
          sub |-> feed_eof(feed_data(ts, pop_all(st).text).s)]
    ELSE IF Len(st.buffer) > Len(sep)
    THEN [s |-> wait_for_data(ts_pop(st, -Len(sep)).s), pc |-> "waiting",
          sub |-> feed_data(ts, ts_pop(st, -Len(sep)).text).s]
    ELSE [s |-> wait_for_data(st), pc |-> "waiting", sub |-> ts]

\* asplit(separator) is called: the generator exists and has not run.
TsAsplit(sep) ==
    /\ ts_split.op = "none"
    /\ ts_split' = [op |-> "asplit", sep |-> sep, subs |-> <<>>, pcs |-> <<"created">>]
    /\ UNCHANGED <<stream, ts_fed, ts_err, ts_feeds, ts_reader, ts_chunks, rdvars>>
    /\ UNCHANGED notts

\* The generator after a pass of its inner loop over the source st: after a
\* break the outer loop creates the next sub-stream and yields it.
asplit_step(st) ==
    LET n == Len(ts_split.subs)
        w == asplit_loop(st, ts_split.subs[n], ts_split.sep)
        subs == [ts_split.subs EXCEPT ![n] = w.sub]
    IN  /\ stream' = w.s
        /\ ts_split' = [ts_split EXCEPT
                          !.subs = IF w.pc = "break" THEN Append(subs, NewStream) ELSE subs,
                          !.pcs = << CASE w.pc = "break" -> "yielded"
                                       [] w.pc = "return" -> "ended"
                                       [] w.pc = "waiting" -> "waiting" >>]

\* The consumer asks the generator for the next sub-stream: the first one is
\* yielded at once; later the generator goes on from its yield.
AsplitNext ==
    /\ ts_split.op = "asplit"
    /\ Len(ts_split.subs) < MaxSubs
    /\ \/ /\ ts_split.pcs[1] = "created"
          /\ ts_split' = [ts_split EXCEPT !.subs = <<NewStream>>, !.pcs = <<"yielded">>]
          /\ UNCHANGED stream
       \/ /\ ts_split.pcs[1] = "yielded"
          /\ asplit_step(stream)
    /\ UNCHANGED <<ts_fed, ts_err, ts_feeds, ts_reader, ts_chunks, rdvars>>
    /\ UNCHANGED notts

\* The generator is resumed in _wait_for_data and goes round its inner loop.
AsplitResume ==
    /\ ts_split.op = "asplit"
    /\ Len(ts_split.subs) < MaxSubs
    /\ ts_split.pcs[1] = "waiting"
    /\ stream.woken
    /\ asplit_step(waited_for_data(stream))
    /\ UNCHANGED <<ts_fed, ts_err, ts_feeds, ts_reader, ts_chunks, rdvars>>
    /\ UNCHANGED notts

\* ================================================================ Helper
\* rift/server/helper.py.  Positions are offsets, LineLen to a line, so that
\* the order of the offsets is the order of (line, character) pairs.

\* Deltas the provider yields in one run.
MaxDeltas == 2
\* Change notifications and cancel() calls from outside in one run.
MaxOutside == 2

\* attempts = 10
Attempts == 10

LineLen == 10
Line(pos) == pos \div LineLen

\* The texts of deltas and of content changes, with len(text) and
\* text.count("\n").
Deltas == {"a", "bb"}
ForeignTexts == {"Y", "\n"}
TextLen(text) == IF text = "bb" THEN 2 ELSE 1
Newlines(text) == IF text = "\n" THEN 1 ELSE 0

\* The provider's streams of deltas.
RECURSIVE DeltaSeqs(_)
DeltaSeqs(n) ==
    IF n = 0 THEN {<<>>}
    ELSE {<<>>} \cup {Append(ds, d) : ds \in DeltaSeqs(n - 1), d \in Deltas}

\* Where the cursor starts, and where the ranges of foreign changes start and
\* end (None: no range, the whole document is replaced).
StartCursors == {1, LineLen + 1}
ChangePoints == {0, 1, LineLen + 1, LineLen + 3}
None == [start |-> -1, end |-> -1]
ChangeRanges ==
    {r \in [start : ChangePoints, end : ChangePoints] : r.start <= r.end} \cup {None}

\* The content changes of a notification: the peer's report of a delta it
\* inserted, or a foreign change.
ContentChanges ==
    {[text |-> d, range |-> None] : d \in Deltas}
    \cup {[text |-> t, range |-> r] : t \in ForeignTexts, r \in ChangeRanges}
\* The contentChanges lists of the notifications: one change, or the same
\* delta reported twice.
ChangeLists ==
    {<<c>> : c \in ContentChanges} \cup {<<c, c>> : c \in {x \in ContentChanges : x.text \in Deltas}}

\* Helper.__init__, with no task yet.
NewHelper(pos) ==
    [status |-> "running", task |-> FALSE, pc |-> "none", must_cancel |-> FALSE,
     change_futures |-> [d \in Deltas |-> "none"], cursor |-> pos, ranges |-> {},
     delta |-> "", attempts |-> 0, registered |-> FALSE]

NewRun(ds, pos) ==
    [deltas |-> ds, taken |-> 0, start |-> pos, sent |-> <<>>, clean |-> TRUE, calls |-> 0,
     asked |-> "nobody", active |-> FALSE, handler |-> "none", reverts |-> 0,
     feeder |-> "alive"]

\* No Helper is at work.
HIdle ==
    /\ helper = NewHelper(0)
    /\ h_run = NewRun(<<>>, 0)

\* A Helper for some stream of deltas at some cursor.
HInit ==
    \E ds \in DeltaSeqs(MaxDeltas), pos \in StartCursors :
        /\ helper = NewHelper(pos)
        /\ h_run = NewRun(ds, pos)

\* running
running(h) == h.task /\ h.pc \notin {"ended", "never ran"}

\* Variant of cancel() that does nothing.
cancel_helper_not(h) == h

\* cancel(): Task.cancel() on the worker task, delivered at its next step.
cancel_helper(h) ==
    IF h.task /\ h.pc \notin {"ended", "never ran"} THEN [h EXCEPT !.must_cancel = TRUE] ELSE h

\* start()
HStart ==
    /\ ~running(helper)
    /\ helper.pc = "none"
    /\ helper' = [helper EXCEPT !.task = TRUE, !.pc = "created"]
    /\ UNCHANGED h_run
    /\ UNCHANGED noth

\* cancel() called from outside.
HCancel ==
    /\ h_run.calls < MaxOutside
    /\ helper.pc # "none"
    /\ helper' = cancel_helper(helper)
    /\ h_run' = [h_run EXCEPT !.calls = @ + 1, !.clean = FALSE,
                               !.asked = IF cancel_helper(helper).must_cancel
                                            /\ ~helper.must_cancel
                                         THEN "caller" ELSE @]
    /\ UNCHANGED noth

\* _worker: its except / else clause sets the status, and its finally block
\* clears self.task and discards the callback, up to `await send_progress()`.
end_worker(h, st) ==
    [h EXCEPT !.status = st, !.task = FALSE, !.registered = FALSE, !.pc = "finally",
              !.must_cancel = FALSE]

\* Variant of the top of the retry loop that goes on with the delta for ever.
loop_top_unbounded(h) ==
    [h |-> [h EXCEPT !.attempts = @ - 1,
                     !.change_futures[h.delta] = "pending",
                     !.pc = "apply"],
     sent |-> <<[text |-> h.delta, at |-> h.cursor]>>]

\* The top of `while True` of _worker_core: out of attempts, _worker_core
\* returns and _worker ends with done; else a new future is put in
\* change_futures and apply_insert_text is called: the helper and the calls.
loop_top(h) ==
    IF h.attempts <= 0 THEN [h |-> end_worker(h, "done"), sent |-> <<>>]
    ELSE [h |-> [h EXCEPT !.attempts = @ - 1,
                          !.change_futures[h.delta] = "pending",
                          !.pc = "apply"],
          sent |-> <<[text |-> h.delta, at |-> h.cursor]>>]

\* Variant of after_break that leaves the cursor where it is.
after_break_no_advance(h, order) ==
    [h EXCEPT !.change_futures[h.delta] = "none",
              !.ranges = add(order, [start |-> h.cursor, end |-> h.cursor + TextLen(h.delta)]),
              !.pc = "next"]

\* After `break`: the finally block deletes the future, the cursor advances,
\* the range is added (the set visited in the given order), and progress is
\* sent.
after_break(h, order) ==
    [h EXCEPT !.change_futures[h.delta] = "none",
              !.cursor = @ + TextLen(h.delta),
              !.ranges = add(order, [start |-> h.cursor, end |-> h.cursor + TextLen(h.delta)]),
              !.pc = "next"]

\* The calls of apply_insert_text, one entry for each delta: a call for the
\* same delta again takes the place of the one before (how many there were
\* is Attempts - attempts).
resent(sent, call) ==
    IF call = <<>> THEN sent ELSE SubSeq(sent, 1, Len(sent) - 1) \o call

\* The worker task's first step: on_change is registered and insert_code is
\* awaited; a task cancelled before it runs none of _worker.
HBegin ==
    /\ helper.pc = "created"
    /\ helper' = IF helper.must_cancel
                 THEN [helper EXCEPT !.pc = "never ran", !.must_cancel = FALSE]
                 ELSE [helper EXCEPT !.registered = TRUE, !.pc = "next"]
    /\ UNCHANGED h_run
    /\ UNCHANGED noth

\* insert_code, `async for delta in stream.code`, or send_progress returns:
\* the next delta is taken and submitted, or the stream is over and the
\* thoughts are awaited; when the feed task has failed, _wait_for_data raises
\* its exception and _worker sets the status to error.  A worker that waits
\* in _wait_for_data goes on when the feed task feeds data or eof.
HNext ==
    /\ helper.pc = "next" \/ (helper.pc = "blocked" /\ h_run.feeder = "alive")
    /\ ~helper.must_cancel
    /\ IF h_run.feeder = "failed"
       THEN /\ helper' = end_worker(helper, "error")
            /\ UNCHANGED h_run
       ELSE
       IF h_run.taken < Len(h_run.deltas)
       THEN LET d == h_run.deltas[h_run.taken + 1]
                top == loop_top([helper EXCEPT !.delta = d, !.attempts = Attempts])
            IN  /\ helper' = top.h
                /\ h_run' = [h_run EXCEPT !.taken = @ + 1, !.sent = @ \o top.sent]
       ELSE /\ helper' = [helper EXCEPT !.pc = "thoughts"]
            /\ UNCHANGED h_run
    /\ UNCHANGED noth

\* apply_insert_text returns: not applied, the worker sleeps; applied, it
\* waits for the future, or goes on at once when the future is done.
HApplied(applied) ==
    /\ helper.pc = "apply"
    /\ ~helper.must_cancel
    /\ IF ~applied
       THEN /\ helper' = [helper EXCEPT !.pc = "sleep"]
            /\ h_run' = [h_run EXCEPT !.clean = FALSE]
       ELSE /\ IF helper.change_futures[helper.delta] = "done"
               THEN \E order \in Orders(helper.ranges) : helper' = after_break(helper, order)
               ELSE helper' = [helper EXCEPT !.pc = "wait_for"]
            /\ UNCHANGED h_run
    /\ UNCHANGED noth

\* asyncio.sleep(0.1) returns; `continue`.
HSlept ==
    /\ helper.pc = "sleep"
    /\ ~helper.must_cancel
    /\ helper' = loop_top(helper).h
    /\ h_run' = [h_run EXCEPT !.sent = resent(@, loop_top(helper).sent)]
    /\ UNCHANGED noth

\* wait_for returns: the future has its result; `break`.
HConfirmed ==
    /\ helper.pc = "wait_for"
    /\ ~helper.must_cancel
    /\ helper.change_futures[helper.delta] = "done"
    /\ \E order \in Orders(helper.ranges) : helper' = after_break(helper, order)
    /\ UNCHANGED h_run
    /\ UNCHANGED noth

\* wait_for raises TimeoutError: the except clause logs, the finally block
\* deletes the future, and the loop goes round again.
HTimeout ==
    /\ helper.pc = "wait_for"
    /\ ~helper.must_cancel
    /\ helper.change_futures[helper.delta] = "pending"
    /\ LET top == loop_top([helper EXCEPT !.change_futures[helper.delta] = "none"])
       IN  /\ helper' = top.h
           /\ h_run' = [h_run EXCEPT !.sent = resent(@, top.sent),
                                      !.clean = FALSE]
    /\ UNCHANGED noth

\* `async for delta in stream.code` finds the buffer empty and the feed task
\* at work: __anext__ waits in _wait_for_data.
HWait ==
    /\ helper.pc = "next"
    /\ ~helper.must_cancel
    /\ h_run.feeder = "alive"
    /\ helper' = [helper EXCEPT !.pc = "blocked"]
    /\ UNCHANGED h_run
    /\ UNCHANGED noth

\* The provider's iterator raises: the feed task of from_aiter ends with the
\* exception, after the chunks the worker has taken; nothing is fed and
\* nobody is woken.
HProviderFails ==
    /\ h_run.feeder = "alive"
    /\ helper.pc \in {"next", "blocked", "apply", "sleep", "wait_for"}
    /\ h_run' = [h_run EXCEPT !.feeder = "failed", !.clean = FALSE]
    /\ UNCHANGED helper
    /\ UNCHANGED noth

\* The stream is over and stream.thoughts.read() or send_progress returns:
\* _worker_core returns.
HThoughts ==
    /\ helper.pc = "thoughts"
    /\ ~helper.must_cancel
    /\ helper' = end_worker(helper, "done")
    /\ UNCHANGED h_run
    /\ UNCHANGED noth

\* The cancelled worker runs: CancelledError is raised at its await; inside
\* the try of wait_for the finally block deletes the future; _worker sets the
\* status to error.
HCancelled ==
    /\ helper.pc \in {"next", "blocked", "apply", "sleep", "wait_for", "thoughts"}
    /\ helper.must_cancel
    /\ helper' = end_worker(IF helper.pc = "wait_for"
                            THEN [helper EXCEPT !.change_futures[helper.delta] = "none"]
                            ELSE helper, "error")
    /\ UNCHANGED h_run
    /\ UNCHANGED noth

\* send_progress of _worker's finally block returns: the task is done.
HFinally ==
    /\ helper.pc = "finally"
    /\ helper' = [helper EXCEPT !.pc = "ended"]
    /\ UNCHANGED h_run
    /\ UNCHANGED noth

\* Variant of on_change that looks for no future: a change without a range
\* cancels, whatever its text.
on_change_no_match(changes, h) ==
    [h |-> IF \E i \in 1..Len(changes) : changes[i].range = None THEN cancel_helper(h) ELSE h,
     raised |-> "none"]

\* Variant of on_change that never moves the cursor.
RECURSIVE on_change_no_shift(_, _)
on_change_no_shift(changes, h) ==
    IF changes = <<>> THEN [h |-> h, raised |-> "none"]
    ELSE LET c == Head(changes)
             cf == IF c.text \in Deltas THEN h.change_futures[c.text] ELSE "none"
         IN
         IF cf = "done" THEN [h |-> h, raised |-> "InvalidStateError"]
         ELSE IF cf = "pending"
         THEN on_change_no_shift(Tail(changes), [h EXCEPT !.change_futures[c.text] = "done"])
         ELSE IF c.range = None THEN on_change_no_shift(Tail(changes), cancel_helper(h))
         ELSE IF c.range.end <= h.cursor THEN on_change_no_shift(Tail(changes), h)
         ELSE IF InRange(h.cursor, c.range)
         THEN on_change_no_shift(Tail(changes), cancel_helper(h))
         ELSE on_change_no_shift(Tail(changes), h)

\* The body of on_change's loop for the changes in turn.  A change whose text
\* has a future sets its result (InvalidStateError when it is done already,
\* which ends on_change).  For any other change the result of
\* self.ranges.apply_edit(c) is not kept, so the ranges stay; without a range
\* the helper is cancelled; ending at or before the cursor on a line above it
\* moves the cursor by the lines added; containing the cursor cancels.
RECURSIVE on_change(_, _)
on_change(changes, h) ==
    IF changes = <<>> THEN [h |-> h, raised |-> "none"]
    ELSE LET c == Head(changes)
             cf == IF c.text \in Deltas THEN h.change_futures[c.text] ELSE "none"
         IN
         IF cf = "done" THEN [h |-> h, raised |-> "InvalidStateError"]
         ELSE IF cf = "pending"
         THEN on_change(Tail(changes), [h EXCEPT !.change_futures[c.text] = "done"])
         ELSE IF c.range = None THEN on_change(Tail(changes), cancel_helper(h))
         ELSE IF c.range.end <= h.cursor
         THEN IF Line(c.range.end) < Line(h.cursor)
              THEN on_change(Tail(changes),
                             [h EXCEPT !.cursor = @ + LineLen * (Newlines(c.text)
                                                     + Line(c.range.start)
                                                     - Line(c.range.end))])
              ELSE on_change(Tail(changes), h)
         ELSE IF InRange(h.cursor, c.range) THEN on_change(Tail(changes), cancel_helper(h))
         ELSE on_change(Tail(changes), h)

\* A change has no future to match: it is taken as somebody else's.
Foreign(c, h) == c.text \notin Deltas \/ h.change_futures[c.text] = "none"

\* The server calls the registered callback with a change notification.  In
\* one run only MaxOutside notifications do anything else than confirm.
OnChange(changes) ==
    LET out == on_change(changes, helper)
        foreign == \E i \in 1..Len(changes) : Foreign(changes[i], helper)
        confirms == ~foreign /\ out.raised = "none"
    IN  /\ confirms \/ h_run.calls < MaxOutside
        /\ helper.registered
        /\ running(helper)
        /\ helper' = out.h
        /\ h_run' = [h_run EXCEPT
                       !.calls = IF confirms THEN @ ELSE @ + 1,
                       !.clean = @ /\ confirms,
                       !.asked = IF out.h.must_cancel /\ ~helper.must_cancel
                                 THEN "on_change" ELSE @]
        /\ UNCHANGED noth

\* ---- LspServer: morph/run_helper, morph/cancel, morph/accept, morph/reject
\* accept(): refused unless the status is error or done.
accept(h) ==
    IF h.status \notin {"error", "done"} THEN h ELSE [h EXCEPT !.status = "accepted"]

\* reject(): the status is set; with ranges the edit that empties their cover
\* is sent with apply_workspace_edit.
reject(h) ==
    [h |-> [h EXCEPT !.status = "rejected"], revert |-> h.ranges # {}]

\* on_run_helper: the Helper is started and put into active_helpers.
OnRunHelper ==
    /\ ~running(helper)
    /\ helper.pc = "none"
    /\ helper' = [helper EXCEPT !.task = TRUE, !.pc = "created"]
    /\ h_run' = [h_run EXCEPT !.active = TRUE]
    /\ UNCHANGED noth

\* on_cancel, or a change of the client configuration: cancel() of the Helper
\* found in active_helpers.
OnCancel ==
    /\ h_run.active
    /\ HCancel

\* on_accept up to its first await: a refused accept() returns at once and
\* the Helper is popped from active_helpers; else accept() awaits
\* send_progress.  One morph/accept or morph/reject handler is at work at a
\* time.
OnAccept ==
    /\ h_run.calls < MaxOutside
    /\ h_run.active
    /\ h_run.handler = "none"
    /\ helper' = accept(helper)
    /\ h_run' = [h_run EXCEPT !.calls = @ + 1,
                               !.clean = FALSE,
                               !.active = accept(helper) # helper,
                               !.handler = IF accept(helper) # helper THEN "accept" ELSE "none"]
    /\ UNCHANGED noth

\* on_reject up to its first await (apply_workspace_edit or send_progress).
OnReject ==
    /\ h_run.calls < MaxOutside
    /\ h_run.active
    /\ h_run.handler = "none"
    /\ helper' = reject(helper).h
    /\ h_run' = [h_run EXCEPT !.calls = @ + 1,
                               !.clean = FALSE,
                               !.handler = "reject",
                               !.reverts = IF reject(helper).revert THEN @ + 1 ELSE @]
    /\ UNCHANGED noth

\* accept() or reject() returns to on_accept / on_reject: the Helper is popped
\* from active_helpers.
OnResolved ==
    /\ h_run.handler # "none"
    /\ h_run' = [h_run EXCEPT !.handler = "none", !.active = FALSE]
    /\ UNCHANGED helper
    /\ UNCHANGED noth

\* The library objects as constructed.
LibInit == RsInit /\ TsInit /\ HIdle

\* ------------------------------------------------------------------ Spec
\* The requests the peer sends in the outbound specification.
FewRequests == {r \in PeerRequests : r.method \in {"exit", "shutdown"}
                                     \/ (r.method = "foo" /\ r.id = 1 /\ r.pok)}

\* The engine and the library objects as constructed.
InitAll == Init /\ LibInit

\* The engine with its callers and the peer's responses: the outbound side.
Next ==
    \/ (\E m \in OutMethods : Request(m)) /\ UNCHANGED libvars
    \/ (\E i \in OutIds : CancelCaller(i)) /\ UNCHANGED libvars
    \/ (ServeForever) /\ UNCHANGED libvars
    \/ (\E n \in 1..MaxBatch : RecvDatagram(n, MaxOutMsgs)) /\ UNCHANGED libvars
    \/ (\E c \in TransportEnds : RecvClosed(c)) /\ UNCHANGED libvars
    \/ (\E res \in PeerResponses : HandleResponse(res)) /\ UNCHANGED libvars
    \/ (\E req \in FewRequests : HandleRequest(req)) /\ UNCHANGED libvars
    \/ (\E t \in DOMAIN tasks : TaskStart(t)) /\ UNCHANGED libvars
    \/ (\E t \in DOMAIN tasks, o \in HandlerOutcomes : TaskFinish(t, o)) /\ UNCHANGED libvars
    \/ (InitTaskStart) /\ UNCHANGED libvars
    \/ (InitTaskResume) /\ UNCHANGED libvars

Spec == InitAll /\ [][Next]_<<vars, libvars>>

\* The engine with the peer's requests and notifications: the inbound side.
NextIn ==
    \/ (ServeForever) /\ UNCHANGED libvars
    \/ (\E n \in 1..MaxBatch : RecvDatagram(n, MaxMsgs)) /\ UNCHANGED libvars
    \/ (RecvMalformed(MaxMsgs)) /\ UNCHANGED libvars
    \/ (\E c \in TransportEnds : RecvClosed(c)) /\ UNCHANGED libvars
    \/ (HandleBadFrame) /\ UNCHANGED libvars
    \/ (\E req \in PeerRequests : HandleRequest(req)) /\ UNCHANGED libvars
    \/ (\E t \in DOMAIN tasks : TaskStart(t)) /\ UNCHANGED libvars
    \/ (\E t \in DOMAIN tasks, o \in HandlerOutcomes : TaskFinish(t, o)) /\ UNCHANGED libvars
    \/ (InitTaskStart) /\ UNCHANGED libvars

SpecIn == InitAll /\ [][NextIn]_<<vars, libvars>>

\* ================================================================ claims
\* Range(my_requests) as a set: the ids of the outbound table.
Outbound == Range(my_requests)
OutboundAfter == Range(my_requests')

\* C1: a Response whose id is in the outbound table removes that id from the
\* table and, when the request's future is still pending, completes exactly
\* that future with the result or the error the Response carries; every other
\* future is left as it was; and no step of the engine changes a future that
\* is already done (a later Response with the same id completes nothing a
\* second time).  Checked on every step, so for every order of requests and
\* responses.
C1_ResponseCompletesItsFuture ==
    [][ /\ \A res \in PeerResponses :
              (HandleResponse(res) /\ res.id \in Outbound) =>
                  /\ OutboundAfter = Outbound \ {res.id}
                  /\ \A i \in Issued \ {res.id} : FutOf(fut', i) = FutOf(fut, i)
                  /\ FutOf(fut, res.id).st = "pending" =>
                        FutOf(fut', res.id) = [st |-> res.kind, val |-> res.val]
        /\ \A i \in Issued :
              FutOf(fut, i).st # "pending" => FutOf(fut', i) = FutOf(fut, i)
      ]_vars

\* C1 witness: the second of two requests was answered with a result while the
\* first is still waiting in the table.
C1_Witness ==
    \E i, j \in Issued :
        /\ j < i
        /\ FutOf(fut, i) = [st |-> "result", val |-> "a"]
        /\ i \notin Outbound
        /\ FutOf(fut, j).st = "pending"
        /\ j \in Outbound

\* C2 (as claimed): when the serve loop ends because recv raised, every future
\* of the outbound table is done afterwards and the engine is in the shutdown
\* state.
C2_ClosureFailsEveryPending ==
    [][ (loop = "recv" /\ loop' = "ended") =>
            /\ \A i \in Outbound : FutOf(fut', i).st # "pending"
            /\ status' = "shutdown"
      ]_vars

\* C2 witness of the failure: the loop has ended on a transport closure, the
\* finally block raised, and a request is still pending in the table.
C2_Witness ==
    /\ loop = "ended"
    /\ exit_cause \in TransportEnds
    /\ finally_raised
    /\ \E i \in Outbound : FutOf(fut, i).st = "pending"

\* C7 (as claimed): the exit notification ends the serve loop at once, nothing
\* is received or dispatched after the loop has ended, and on the way out every
\* handler task and notification task that is not done is cancelled.
C7_ExitEndsLoopAndCancelsTasks ==
    [][ /\ (exit_cause = "none" /\ exit_cause' = "ExitNotification") =>
              /\ loop' = "ended"
              /\ \A t \in DOMAIN tasks' : tasks'[t].must_cancel
              /\ init_task' \notin {"created", "waiting"}
        /\ loop = "ended" =>
              (loop' = "ended" /\ batch_left' = batch_left /\ nmsgs' = nmsgs)
      ]_vars

\* C7 witness of the failure: the loop ended on exit with a later message of
\* the datagram undispatched, and a handler task is still running uncancelled.
C7_Witness ==
    /\ exit_cause = "ExitNotification"
    /\ batch_left > 0
    /\ \E t \in DOMAIN tasks : tasks[t].st = "running" /\ ~tasks[t].must_cancel

\* C9: a Response whose id is not in the outbound table changes no future, not
\* the outbound table, no task and not the status, and the serve loop goes on.
C9_UnknownResponseDropped ==
    [][ \A res \in PeerResponses :
            (HandleResponse(res) /\ res.id \notin Outbound) =>
                /\ fut' = fut
                /\ my_requests' = my_requests
                /\ tasks' = tasks
                /\ init_task' = init_task
                /\ status' = status
                /\ exit_cause' = exit_cause
                /\ loop' \in {"recv", "dispatch"}
      ]_vars

\* C9 witness: a Response for an unknown id was just dropped while a request
\* is in flight, and the loop is alive.
C9_Witness ==
    /\ log = "received response for unknown request"
    /\ \E i \in Outbound : FutOf(fut, i).st = "pending"
    /\ loop \in {"recv", "dispatch"}

\* C3 (as claimed): whatever the peer sends, the serve loop ends only on the
\* exit notification or on a closure or an error of the transport.
C3_LoopEndsOnlyOnExitOrTransport ==
    exit_cause \in {"none", "ExitNotification"} \cup TransportEnds

\* C3 witness of the failure: the loop has ended on the ResponseError raised
\* for a reused id, and the last thing written is not an error Response.
C3_Witness ==
    /\ loop = "ended"
    /\ exit_cause = "ResponseError"
    /\ ~(wire.type = "response" /\ wire.code = "invalid_request")

\* C4 (as claimed): in ExpectInit mode, while the status is preinit, receiving
\* a request other than initialize (and exit) leaves the status preinit, and the
\* first step of such a request's task answers server_not_initialized without
\* running a handler; the first step of an initialize request's task moves the
\* status to running.
C4_PreinitRejectsAllButInitialize ==
    [][ (init_mode = "ExpectInit" /\ status = "preinit") =>
            /\ \A req \in PeerRequests :
                  (req.method \notin {"initialize", "exit"} /\ HandleRequest(req)
                   /\ loop' # "ended") => status' = "preinit"
            /\ \A t \in DOMAIN tasks :
                  (TaskStart(t) /\ ~tasks[t].must_cancel) =>
                      IF tasks[t].method = "initialize"
                      THEN status' = "running"
                      ELSE /\ status' = "preinit"
                           /\ tasks' = RemoveAt(tasks, t)
                           /\ wire' = ResponseMsg(tasks[t].id, "server_not_initialized")
      ]_vars

\* C4 witness of the failure: an ExpectInit engine that never saw initialize
\* is in the shutdown state with the shutdown handler running.
C4_Witness ==
    /\ init_mode = "ExpectInit"
    /\ status = "shutdown"
    /\ loop # "ended"
    /\ \E t \in DOMAIN tasks : tasks[t].method = "shutdown" /\ tasks[t].st = "running"

C6_ShutdownCancelsInFlight ==
    [][ /\ \A req \in PeerRequests :
              (req.method = "shutdown" /\ HandleRequest(req)) =>
                  /\ status' = "shutdown"
                  /\ Len(tasks') = Len(tasks) + 1
                  /\ \A t \in DOMAIN tasks : tasks'[t] = [tasks[t] EXCEPT !.must_cancel = TRUE]
                  /\ tasks'[Len(tasks')].method = "shutdown"
                  /\ tasks'[Len(tasks')].id = req.id
                  /\ tasks'[Len(tasks')].st = "created"
                  /\ ~tasks'[Len(tasks')].must_cancel
        /\ \A t \in DOMAIN tasks :
              (tasks[t].method = "shutdown" /\ ~tasks[t].must_cancel /\ TaskStart(t)) =>
                  tasks' = [tasks EXCEPT ![t].st = "running"]
      ]_vars

\* C6 witness: the shutdown handler runs uncancelled next to a request handler
\* and a notification handler that were in flight and are cancelled.
C6_Witness ==
    /\ status = "shutdown"
    /\ \E t, u, v \in DOMAIN tasks :
          /\ tasks[t].reg = "req" /\ tasks[t].st = "running" /\ tasks[t].must_cancel
          /\ tasks[v].reg = "notif" /\ tasks[v].st = "running" /\ tasks[v].must_cancel
          /\ tasks[u].method = "shutdown" /\ tasks[u].st = "running"
          /\ ~tasks[u].must_cancel

\* A well-formed $/cancelRequest notification.
IsCancelNotification(task) ==
    task.method = "$/cancelRequest" /\ task.id = NoId /\ task.pok

\* The tasks after cancelling exactly the request tasks with the target id of
\* task t and after t itself is done.
CancelsOnlyTarget(t) ==
    /\ tasks' = RemoveAt([u \in DOMAIN tasks |->
                            IF tasks[u].reg = "req" /\ tasks[u].id = tasks[t].target
                            THEN [tasks[u] EXCEPT !.must_cancel = TRUE]
                            ELSE tasks[u]], t)
    /\ wire' = wire
    /\ status' = status

\* C8 (as claimed): in every state, the first step of the task of a
\* $/cancelRequest notification with id i cancels the tasks of the inbound
\* table with id i and no other, and writes nothing.
C8_CancelRequestAnyState ==
    [][ \A t \in DOMAIN tasks :
            (IsCancelNotification(tasks[t]) /\ ~tasks[t].must_cancel /\ TaskStart(t))
                => CancelsOnlyTarget(t)
      ]_vars

\* C8 (amended): while the status is running, the first step of the task of a
\* $/cancelRequest notification with id i cancels the tasks of the inbound
\* table with id i and no other, and writes nothing; with no such task it
\* changes no task.
C8_CancelRequestWhileRunning ==
    [][ \A t \in DOMAIN tasks :
            (IsCancelNotification(tasks[t]) /\ status = "running" /\ TaskStart(t))
                => CancelsOnlyTarget(t)
      ]_vars

\* C8 witness: of two handlers in flight while running, the one with id 1 is
\* cancelled and the one with id 2 is not.
C8_Witness ==
    /\ status = "running"
    /\ \E t, u \in DOMAIN tasks :
          /\ tasks[t].id = 1 /\ tasks[t].st = "running" /\ tasks[t].must_cancel
          /\ tasks[u].id = 2 /\ tasks[u].st = "running" /\ ~tasks[u].must_cancel

\* C10 (as claimed): no Response is written for a notification: a Response
\* without id is only ever the parse_error answer to a frame that is not a
\* message.
C10_NoResponseToNotification ==
    (wire.type = "response" /\ wire.id = NoId) => wire.code = "parse_error"

\* C10 witness of the failure: a Response without id that reports an unknown
\* method.
C10_Witness ==
    wire = ResponseMsg(NoId, "method_not_found")

\* C11 (as claimed): in SendInit mode, while the serve loop runs, the status
\* leaves preinit only by becoming running, in the step of _send_init that
\* follows a result for the initialize request it sent, and that step writes
\* the initialized notification; while the status is preinit the first step of
\* every inbound request's task answers server_not_initialized and runs no
\* handler; once the initialize request has failed the status never becomes
\* running.
C11_SendInitStaysPreinit ==
    [][ init_mode = "SendInit" =>
            /\ (status = "preinit" /\ status' # "preinit" /\ loop' # "ended") =>
                  /\ status' = "running"
                  /\ init_task = "waiting"
                  /\ FutOf(fut, init_id).st = "result"
                  /\ wire' = NotificationMsg("initialized")
            /\ \A t \in DOMAIN tasks :
                  (status = "preinit" /\ ~tasks[t].must_cancel /\ TaskStart(t)) =>
                      /\ status' = "preinit"
                      /\ tasks' = RemoveAt(tasks, t)
                      /\ wire' = ResponseMsg(tasks[t].id, "server_not_initialized")
            /\ (init_id # NoId /\ FutOf(fut, init_id).st = "error") =>
                  status' # "running"
      ]_vars

\* C11 witness of the failure: a SendInit engine whose initialize request was
\* never answered is in the shutdown state, its _send_init task cancelled, and
\* runs the shutdown handler.
C11_Witness ==
    /\ init_mode = "SendInit"
    /\ status = "shutdown"
    /\ loop # "ended"
    /\ init_task = "cancelled"
    /\ init_id # NoId
    /\ FutOf(fut, init_id).st = "cancelled"
    /\ \E t \in DOMAIN tasks : tasks[t].method = "shutdown" /\ tasks[t].st = "running"

\* C12: every step that issues a request takes an id greater than the counter
\* before it and greater than every id issued before, and at the moment the
\* request is written its id is in the outbound table with a pending future;
\* the counter never decreases, and the ids of the outbound table are strictly
\* increasing in insertion order.
C12_IdsIncreaseAndFutureRegistered ==
    [][ /\ request_counter' >= request_counter
        /\ ((wire'.type = "request" /\ wire' # wire) \/ request_counter' # request_counter) =>
              /\ wire'.type = "request"
              /\ wire'.id = request_counter'
              /\ wire'.id > request_counter
              /\ \A i \in Issued : i < wire'.id
              /\ wire'.id \in OutboundAfter
              /\ FutOf(fut', wire'.id).st = "pending"
        /\ \A k, l \in DOMAIN my_requests' : k < l => my_requests'[k] < my_requests'[l]
      ]_vars

\* C12 witness: the second request has just been written and is in the table,
\* after the first was answered and removed.
C12_Witness ==
    /\ wire.type = "request"
    /\ wire.id = CounterSeed + 2
    /\ my_requests = <<CounterSeed + 2>>
    /\ FutOf(fut, CounterSeed + 1).st = "result"

\* C13 (as claimed): for a request with an id whose handler is running, when
\* the handler raises an exception that is not a ResponseError the Response
\* written carries the internal_error code -32603, when the task is cancelled
\* the Response written carries the request_cancelled code -32800, and in both
\* cases the task ends and the serve loop is where it was.
C13_HandlerFailureCodes ==
    [][ \A t \in DOMAIN tasks :
            (tasks[t].id # NoId /\ (tasks[t].must_cancel \/ TaskFinish(t, "Exception"))
             /\ \E o \in HandlerOutcomes : TaskFinish(t, o)) =>
                /\ wire'.type = "response"
                /\ wire'.id = tasks[t].id
                /\ ErrorCode(wire'.code) = IF tasks[t].must_cancel THEN -32800 ELSE -32603
                /\ tasks' = RemoveAt(tasks, t)
                /\ loop' = loop
                /\ exit_cause' = exit_cause
      ]_vars

\* C13 witness of the failure: the request with id 1 was answered with the
\* server_error code while the serve loop runs.
C13_Witness ==
    /\ wire = ResponseMsg(1, "server_error")
    /\ ErrorCode(wire.code) = -32000
    /\ loop = "recv"

\* ------------------------------------------------------- RangeSet claims

\* A RangeSet on which only add is called, with ranges that are not empty, next
\* to an engine that is never served.
NextRSAdd == \E r \in {x \in Ranges : RangeLen(x) > 0} : RsAdd(r)

\* An engine that is never served, next to a new RangeSet.
InitRSAdd == Init /\ init_mode = "NoInit" /\ RsInit /\ TsInit /\ HIdle

SpecRSAdd == InitRSAdd /\ [][NextRSAdd]_<<vars, libvars>>

\* Two ranges neither overlap nor abut.
Apart(r1, r2) == r1.end < r2.start \/ r2.end < r1.start

\* The ranges of a set are pairwise non-overlapping and non-abutting.
PairwiseApart(rs) == \A r1, r2 \in rs : r1 # r2 => Apart(r1, r2)

\* C14 (as claimed): after every sequence of add calls on an empty RangeSet
\* the ranges of the set are pairwise non-overlapping and non-abutting.
C14_AddKeepsRangesApart == PairwiseApart(ranges)

\* C14 witness of the failure: the last add put in a range that strictly
\* contains a range of the set, and both are in the set.
C14_Witness ==
    /\ rs_op = "add"
    /\ \E r \in ranges :
          /\ r # rs_arg.range
          /\ rs_arg.range.start < r.start
          /\ r.end < rs_arg.range.end
    /\ rs_arg.range \in ranges

\* Ranges in a RangeSet built from RangeSets.
MaxSet == 3

\* The sets of at most k ranges.
RECURSIVE SetsUpTo(_)
SetsUpTo(k) ==
    IF k = 0 THEN {{}} ELSE {{}} \cup {rs \cup {r} : rs \in SetsUpTo(k - 1), r \in Ranges}

\* RangeSet([RangeSet([r1]), RangeSet([r2]), ...]): the constructor takes the
\* ranges of RangeSet items as they are, so any set of ranges is the ranges of
\* some RangeSet.
RsInitAny ==
    /\ ranges \in SetsUpTo(MaxSet)
    /\ rs_op = "new"
    /\ rs_arg = [range |-> NoRange, n |-> 0]
    /\ rs_prev = ranges
    /\ rs_mapped = {}
    /\ rs_calls = 0

\* Any RangeSet, normalized again and again.
NextRSNorm == RsNormalize

\* An engine that is never served, next to any RangeSet.
InitRSAny == Init /\ init_mode = "NoInit" /\ RsInitAny /\ TsInit /\ HIdle

SpecRSNorm == InitRSAny /\ [][NextRSNorm]_<<vars, libvars>>

\* C16 (as claimed): the ranges normalize returns are pairwise non-overlapping
\* and non-abutting, and normalize of a set normalize returned returns the
\* same ranges.
C16_NormalizeIdempotent ==
    [][ /\ rs_op' = "normalize" => PairwiseApart(ranges')
        /\ (rs_op = "normalize" /\ rs_op' = "normalize") => ranges' = ranges
      ]_<<vars, libvars>>

\* C16 witness of the failure: normalize of three ranges, one strictly inside
\* another, returned two overlapping ranges.
C16_Witness ==
    /\ rs_op = "normalize"
    /\ rs_prev = {[start |-> 0, end |-> 1], [start |-> 0, end |-> 4],
                  [start |-> 2, end |-> 3]}
    /\ ranges = {[start |-> 0, end |-> 4], [start |-> 2, end |-> 3]}

\* Edits applied in a row.
MaxEdits == 1

\* Any RangeSet, rebased against an edit.
NextRSEdit ==
    \E e \in Ranges \cup {NoRange}, n \in 0..MaxText :
        rs_calls < MaxEdits /\ RsApplyEdit(e, n)

SpecRSEdit == InitRSAny /\ [][NextRSEdit]_<<vars, libvars>>

\* What the claim says apply_edit makes of one range r, for an edit of range e
\* and a new text of length n.
ClaimedImage(r, e, n) ==
    LET delta == n - (e.end - e.start) IN
    IF e.end <= r.start THEN {[start |-> r.start + delta, end |-> r.end + delta]}
    ELSE IF r.end <= e.start THEN {r}
    ELSE (IF r.start < e.start THEN {[start |-> r.start, end |-> e.start]} ELSE {})
         \cup (IF e.end < r.end
               THEN {[start |-> e.start + n, end |-> r.end + delta]} ELSE {})

\* C15 (as claimed): the set apply_edit builds holds, for each range of the
\* set, the range shifted by delta when the edit ends at or before its start,
\* the range itself when it ends at or before the edit's start, and otherwise
\* its part before the edit's start and its part after the edit's end re-based,
\* and nothing for what lies inside the edit.
C15_ApplyEditRebases ==
    (rs_op = "apply_edit" /\ rs_arg.range # NoRange) =>
        rs_mapped = UNION {ClaimedImage(r, rs_arg.range, rs_arg.n) : r \in rs_prev}

\* C15 witness of the failure: a range wholly inside the edit, starting where
\* the edit starts, is still there as an empty range.
C15_Witness ==
    /\ rs_op = "apply_edit"
    /\ rs_prev = {[start |-> 1, end |-> 3]}
    /\ rs_arg = [range |-> [start |-> 1, end |-> 4], n |-> 0]
    /\ ranges = {[start |-> 1, end |-> 1]}

\* ----------------------------------------------------- TextStream claims
\* A producer and an `async for` consumer of one TextStream, next to an
\* engine that is never served and a RangeSet that is never used.
InitTS == Init /\ init_mode = "NoInit" /\ RsInit /\ TsInit /\ HIdle

NextTS ==
    \/ \E data \in Chunks : TsFeed(data)
    \/ TsClose
    \/ TsAnext
    \/ TsAnextResume

SpecTS == InitTS /\ [][NextTS]_<<vars, libvars>>

\* The concatenation of a sequence of texts.
RECURSIVE Concat(_)
Concat(texts) == IF texts = <<>> THEN <<>> ELSE Head(texts) \o Concat(Tail(texts))

\* C17: in every state every chunk the iteration yielded is non-empty and the
\* chunks yielded, followed by what is still buffered, are the fed texts in
\* feed order; the iteration has ended only when the channel is closed and
\* drained, and then the chunks alone are the fed texts; and a pass of the
\* consumer over a closed and drained channel ends the iteration.
C17_IterationYieldsFedText ==
    [][ /\ \A k \in DOMAIN ts_chunks' : Len(ts_chunks'[k]) > 0
        /\ Concat(ts_chunks') \o stream'.buffer = ts_fed'
        /\ ts_reader' = "stopped" =>
              (stream'.eof /\ stream'.buffer = <<>> /\ Concat(ts_chunks') = ts_fed')
        /\ (stream.eof /\ stream.buffer = <<>> /\ (TsAnext \/ TsAnextResume)) =>
              ts_reader' = "stopped"
      ]_<<vars, libvars>>

\* C17 witness: the iteration ended after yielding, in two chunks, the three
\* characters fed in three calls.
C17_Witness ==
    /\ ts_reader = "stopped"
    /\ Len(ts_chunks) = 2
    /\ Len(ts_fed) = 3
    /\ ts_feeds = 3

\* C20: feed_data on a closed channel raises RuntimeError and leaves the
\* buffer, the closed flag and the waiter as they were, and what is buffered is
\* what the next read returns; feed_data of the empty text on an open channel
\* raises nothing, changes nothing and wakes nobody.
C20_FeedAfterCloseFails ==
    [][ /\ \A data \in Chunks :
              TsFeed(data) =>
                  /\ stream.eof =>
                        (ts_err' = "RuntimeError" /\ stream' = stream /\ ts_fed' = ts_fed)
                  /\ (~stream.eof /\ data = <<>>) =>
                        (ts_err' = "none" /\ stream' = stream /\ ts_fed' = ts_fed)
        /\ (ts_err = "RuntimeError" /\ stream.buffer # <<>> /\ TsAnext) =>
              (ts_chunks' = Append(ts_chunks, stream.buffer) /\ stream'.buffer = <<>>)
      ]_<<vars, libvars>>

\* C20 witness: feed_data has just failed on a closed channel that still
\* buffers text.
C20_Witness ==
    /\ ts_err = "RuntimeError"
    /\ stream.eof
    /\ stream.buffer # <<>>
\* ---- split_once
\* A stream that is fed and closed while split_once's two tasks run.
InitSplit == Init /\ init_mode = "NoInit" /\ RsInit /\ TsInit /\ HIdle

NextSplit ==
    \/ \E data \in Chunks : TsFeed(data)
    \/ TsClose
    \/ \E sep \in Seps : TsSplitOnce(sep)
    \/ BeforeWorker
    \/ AfterWorker

SpecSplit == InitSplit /\ [][NextSplit]_<<vars, libvars>>

\* The places (from 1) where sep occurs in text.
Occurrences(text, sep) ==
    {i \in 1..(Len(text) - Len(sep) + 1) : \A j \in 1..Len(sep) : text[i + j - 1] = sep[j]}
FirstOccurrence(text, sep) ==
    CHOOSE i \in Occurrences(text, sep) : \A j \in Occurrences(text, sep) : i <= j
\* The text preceding the first occurrence of sep (the whole text without one).
Preceding(text, sep) ==
    IF Occurrences(text, sep) = {} THEN text
    ELSE SubSeq(text, 1, FirstOccurrence(text, sep) - 1)
\* The text following the first occurrence of sep (empty without one).
Following(text, sep) ==
    IF Occurrences(text, sep) = {} THEN <<>>
    ELSE SubSeq(text, FirstOccurrence(text, sep) + Len(sep), Len(text))

IsPrefix(a, b) == Len(a) <= Len(b) /\ SubSeq(b, 1, Len(a)) = a

\* C18: split_once(separator), for every text fed in any chunking and then
\* closed: what *before* has received is at any time a prefix of the text
\* preceding the first occurrence of the separator, and all of it once
\* before_task is done, when *before* is closed; what *after* has received is
\* at any time a prefix of the text following that occurrence, and all of it
\* once after_task is done, when *after* is closed; without an occurrence
\* *before* gets the whole text and *after* is closed empty; neither task
\* raises; and once the source is closed each task is done or can run, so both
\* sub-streams get closed.
C18_SplitOnceAroundFirstSeparator ==
    ts_split.op = "split_once" =>
        LET sep == ts_split.sep
            before == ts_split.subs[1]
            after == ts_split.subs[2]
        IN  /\ IsPrefix(before.buffer, Preceding(ts_fed, sep))
            /\ IsPrefix(after.buffer, Following(ts_fed, sep))
            /\ ts_split.pcs[1] \in {"created", "waiting", "done"}
            /\ ts_split.pcs[2] \in {"created", "await before_task", "reading", "waiting",
                                    "done"}
            /\ ts_split.pcs[1] = "done" =>
                  /\ before.eof
                  /\ Occurrences(ts_fed, sep) # {} \/ stream.eof
                  /\ before.buffer = Preceding(ts_fed, sep)
            /\ ts_split.pcs[2] = "done" =>
                  /\ after.eof /\ stream.eof /\ ts_split.pcs[1] = "done"
                  /\ after.buffer = Following(ts_fed, sep)
            /\ stream.eof =>
                  /\ ts_split.pcs[1] = "waiting" => stream.woken
                  /\ ts_split.pcs[2] \in {"waiting", "reading"} => stream.woken

\* C18 witness: a two-character separator arrived split across two feeds, with
\* text on both sides of it, and both sub-streams are closed.
C18_Witness ==
    /\ ts_split.op = "split_once"
    /\ ts_split.sep = <<"s", "s">>
    /\ ts_split.pcs = <<"done", "done">>
    /\ ts_fed = <<"x", "s", "s", "x">>
    /\ ts_feeds = 2
    /\ ts_split.subs[1].buffer = <<"x">>
    /\ ts_split.subs[2].buffer = <<"x">>
    /\ ts_split.subs[1].eof /\ ts_split.subs[2].eof


\* ---- asplit
\* A stream that is fed and closed while a consumer iterates asplit.
InitAsplit == Init /\ init_mode = "NoInit" /\ RsInit /\ TsInit /\ HIdle

NextAsplit ==
    \/ \E data \in Chunks : TsFeed(data)
    \/ TsClose
    \/ \E sep \in Seps : TsAsplit(sep)
    \/ AsplitNext
    \/ AsplitResume

SpecAsplit == InitAsplit /\ [][NextAsplit]_<<vars, libvars>>

\* The texts between the occurrences of sep in text, the occurrences taken
\* from the left and not overlapping: k occurrences give k + 1 texts.
RECURSIVE Pieces(_, _)
Pieces(text, sep) ==
    IF Occurrences(text, sep) = {} THEN <<text>>
    ELSE <<Preceding(text, sep)>> \o Pieces(Following(text, sep), sep)

\* C19 (as claimed): asplit(separator), for a text with k occurrences of the
\* separator: the generator never yields more than k + 1 sub-streams; what the
\* i-th sub-stream has received is a prefix of the text between the (i-1)-th
\* and the i-th occurrence, and all of it when the sub-stream is closed; every
\* sub-stream but the one being filled is closed; and when the generator has
\* ended it has yielded exactly k + 1 sub-streams, all closed.
C19_AsplitYieldsPieces ==
    ts_split.op = "asplit" =>
        LET subs == ts_split.subs
            pieces == Pieces(ts_fed, ts_split.sep)
        IN  /\ Len(subs) <= Len(pieces)
            /\ \A i \in 1..Min(Len(subs), Len(pieces)) :
                  /\ IsPrefix(subs[i].buffer, pieces[i])
                  /\ subs[i].eof => subs[i].buffer = pieces[i]
                  /\ i < Len(subs) => subs[i].eof
            /\ ts_split.pcs[1] = "ended" =>
                  /\ stream.eof
                  /\ Len(subs) = Len(pieces)
                  /\ \A i \in 1..Len(subs) : subs[i].eof

\* C19, what the code does: the text "xsx" with one separator "s" was fed and
\* closed; the first sub-stream got "x", the separator is still at the head of
\* the source's buffer, and the generator has yielded an empty closed second
\* sub-stream and a third one.
C19_Witness ==
    /\ ts_split.op = "asplit"
    /\ ts_split.sep = <<"s">>
    /\ ts_fed = <<"x", "s", "x">>
    /\ stream.eof
    /\ stream.buffer = <<"s", "x">>
    /\ Len(ts_split.subs) >= 3
    /\ ts_split.subs[1].buffer = <<"x">>
    /\ ts_split.subs[2].buffer = <<>> /\ ts_split.subs[2].eof


\* ---- reads
\* A stream that is fed and closed while one task reads it and may be
\* cancelled.
InitRead == Init /\ init_mode = "NoInit" /\ RsInit /\ TsInit /\ HIdle

NextRead ==
    \/ \E data \in Chunks : TsFeed(data)
    \/ TsClose
    \/ \E op \in ReadOps : RdStart(1, op)
    \/ RdResume(1)
    \/ RdCancel(1)
    \/ RdCancelled(1)

SpecRead == InitRead /\ [][NextRead]_<<vars, libvars>>

\* Reader 1 reads alone and is not cancelled.
ReadsAlone == readers[2].pc = "idle" /\ readers[1].fut # "cancelled"
                 /\ readers[1].pc # "CancelledError"

\* C21: a task that reads alone.  readexactly(n) returns exactly the first n
\* characters fed, in whatever chunking, fails with EOFError only when the
\* stream was closed with fewer than n characters fed, fails in no other way,
\* and does not go on waiting once n characters are fed or the stream is
\* closed.  readuntil(separator) returns the text up to and including the
\* first occurrence of the separator, fails with EOFError only when the stream
\* was closed without an occurrence, and does not go on waiting once the
\* separator is in or the stream is closed.
C21_ReadExactAndReadUntil ==
    ReadsAlone =>
        LET rd == readers[1] IN
        /\ rd.op.kind = "readexactly" =>
              /\ rd.pc \in {"waiting", "return", "EOFError"}
              /\ rd.pc = "return" =>
                    /\ Len(rd.out) = rd.op.n
                    /\ IsPrefix(rd.out, ts_fed)
              /\ rd.pc = "EOFError" => stream.eof /\ Len(ts_fed) < rd.op.n
              /\ (rd.pc = "waiting" /\ rd.fut = "pending") =>
                    Len(ts_fed) < rd.op.n /\ ~stream.eof
        /\ rd.op.kind = "readuntil" =>
              /\ rd.pc \in {"waiting", "return", "EOFError"}
              /\ rd.pc = "return" =>
                    /\ Occurrences(ts_fed, rd.op.sep) # {}
                    /\ rd.out = Preceding(ts_fed, rd.op.sep) \o rd.op.sep
              /\ rd.pc = "EOFError" => stream.eof /\ Occurrences(ts_fed, rd.op.sep) = {}
              /\ (rd.pc = "waiting" /\ rd.fut = "pending") =>
                    Occurrences(ts_fed, rd.op.sep) = {} /\ ~stream.eof

\* C21 witness: readexactly(3) got its three characters from two feeds it had
\* to wait for, and text is left in the buffer.
C21_Witness ==
    /\ ReadsAlone
    /\ readers[1].op = [kind |-> "readexactly", n |-> 3, sep |-> <<>>]
    /\ readers[1].pc = "return"
    /\ readers[1].out = <<"x", "s", "x">>
    /\ ts_fed = <<"x", "s", "x", "s">>
    /\ stream.buffer = <<"s">>

\* C21 witness, failure: readuntil of a two-character separator failed with
\* EOFError on a stream closed after half the separator.
C21_WitnessEof ==
    /\ ReadsAlone
    /\ readers[1].op = [kind |-> "readuntil", n |-> 0, sep |-> <<"s", "s">>]
    /\ readers[1].pc = "EOFError"
    /\ ts_fed = <<"x", "s">>


\* A stream that is fed and closed while two tasks read it.
InitRead2 == Init /\ init_mode = "NoInit" /\ RsInit /\ TsInit /\ HIdle

NextRead2 ==
    \/ \E data \in Chunks : TsFeed(data)
    \/ TsClose
    \/ \E r \in Readers, op \in ReadOps : RdStart(r, op)
    \/ \E r \in Readers : RdResume(r)

SpecRead2 == InitRead2 /\ [][NextRead2]_<<vars, libvars>>

\* A read of no characters: read(0), readexactly(0).
ReadsNothing(op) == op.kind \in {"read", "readexactly"} /\ op.n = 0

\* C22 (as claimed): a read started by a second task while the first task's
\* read is blocked waiting for data fails with the usage error (RuntimeError)
\* and disturbs nothing: the stream, its waiter and the first task's read are
\* as before, so the first read still gets the data fed afterwards.  Reads of
\* no characters are left out.
C22_SecondReadFails ==
    [][ \A op \in ReadOps :
          (/\ RdStart(2, op)
           /\ ~ReadsNothing(op)
           /\ readers[1].pc = "waiting"
           /\ readers[1].fut = "pending")
          => /\ readers'[2].pc = "RuntimeError"
             /\ readers'[1] = readers[1]
             /\ stream' = stream
             /\ waiter_of' = waiter_of
      ]_<<vars, libvars>>

\* C22, what the code does: the first task's readexactly(2) is blocked with one
\* character buffered, and the second task's __anext__ has returned that
\* character without any error.
C22_Witness ==
    /\ readers[1].op.kind = "readexactly" /\ readers[1].op.n = 2
    /\ readers[1].pc = "waiting" /\ readers[1].fut = "pending"
    /\ readers[2].op.kind = "anext"
    /\ readers[2].pc = "return"
    /\ readers[2].out = <<"x">>
    /\ ts_fed = <<"x">>
    /\ stream.buffer = <<>>


\* C23 (as claimed): when a task whose read was blocked has been cancelled,
\* whatever the kind of the read, the _on_cancel callback of the stream has
\* been called and the stream records no waiter.
C23_CancelCallsOnCancel ==
    readers[1].pc = "CancelledError" => on_cancel_calls >= 1 /\ ~stream.waiter

\* C23, what the code does: a blocked readuntil was cancelled, the waiter is
\* cleared, and _on_cancel was never called.
C23_Witness ==
    /\ readers[1].op.kind = "readuntil"
    /\ readers[1].pc = "CancelledError"
    /\ ~stream.waiter
    /\ on_cancel_calls = 0


\* ============================================================ Helper claims
\* A Helper with its worker, its caller, the peer and the change notifications.
InitH == Init /\ init_mode = "NoInit" /\ RsInit /\ TsInit /\ HInit

NextH ==
    \/ HStart
    \/ HCancel
    \/ HBegin
    \/ HNext
    \/ \E applied \in BOOLEAN : HApplied(applied)
    \/ HSlept
    \/ HConfirmed
    \/ HTimeout
    \/ HThoughts
    \/ HCancelled
    \/ HFinally
    \/ \E changes \in ChangeLists : OnChange(changes)

SpecH == InitH /\ [][NextH]_<<vars, libvars>>


\* len of the deltas together.
RECURSIVE TotalLen(_)
TotalLen(ds) == IF ds = <<>> THEN 0 ELSE TextLen(Head(ds)) + TotalLen(Tail(ds))

\* The positions a set of ranges covers.
Covered(rs) == UNION {r.start..(r.end - 1) : r \in rs}

\* Every edit so far was applied and confirmed, nothing foreign arrived,
\* nobody cancelled.
CleanRun == h_run.clean

\* The deltas the worker is through with.
Finished ==
    IF helper.pc \in {"apply", "sleep", "wait_for"} THEN h_run.taken - 1 ELSE h_run.taken

\* C24: in a run in which every edit is applied and confirmed and no foreign
\* change arrives: the k-th apply_insert_text call is for the provider's k-th
\* delta, at the start cursor advanced by the length of the deltas before it;
\* a delta is submitted only when every delta before it has been confirmed
\* and added (the cursor and the ranges stand at the end of those deltas and
\* no other future is waiting); the ranges cover exactly the text from the
\* start cursor to the cursor; the status is running until the worker ends
\* and done then, when all the deltas are in.
C24_DeltasInOrderAtCursor ==
    CleanRun =>
        LET ds == h_run.deltas
            done_len == TotalLen(SubSeq(ds, 1, Finished))
        IN  /\ Len(h_run.sent) = h_run.taken
            /\ \A k \in 1..Len(h_run.sent) :
                  h_run.sent[k] = [text |-> ds[k],
                                   at |-> h_run.start + TotalLen(SubSeq(ds, 1, k - 1))]
            /\ helper.cursor = h_run.start + done_len
            /\ Covered(helper.ranges) = h_run.start..(helper.cursor - 1)
            /\ \A d \in Deltas :
                  helper.change_futures[d] # "none" =>
                      helper.pc \in {"apply", "wait_for"} /\ d = helper.delta
            /\ helper.pc \notin {"finally", "ended"} => helper.status = "running"
            /\ helper.pc \in {"finally", "ended"} =>
                  /\ helper.status = "done"
                  /\ h_run.taken = Len(ds)
                  /\ helper.cursor = h_run.start + TotalLen(ds)

\* C24 witness: the worker has ended after the deltas "a" and "bb", both
\* applied and confirmed.
C24_Witness ==
    /\ CleanRun
    /\ helper.pc = "ended"
    /\ h_run.deltas = <<"a", "bb">>
    /\ helper.status = "done"
    /\ helper.cursor = h_run.start + 3
    /\ Len(h_run.sent) = 2


\* C25: a change notification whose one content change has the text of a
\* delta whose future is pending sets that future's result and changes nothing
\* else of the Helper: no cancellation is asked for, the cursor and the ranges
\* stay, the worker is where it was.  Checked for every step, so wherever the
\* worker is when the callback fires (awaiting the peer's answer, sleeping
\* before a retry, waiting for the future, or about to be cancelled).
C25_OwnChangeResolvesFuture ==
    [][ \A c \in ContentChanges :
          (/\ c.text \in Deltas
           /\ helper.change_futures[c.text] = "pending"
           /\ OnChange(<<c>>))
          => helper' = [helper EXCEPT !.change_futures[c.text] = "done"]
      ]_<<vars, libvars>>

\* C25 witness: the notification came while the worker still awaits the
\* peer's answer to apply_insert_text: the future is done, the cursor is
\* where it started, nothing is cancelled.
C25_Witness ==
    /\ helper.pc = "apply"
    /\ helper.change_futures[helper.delta] = "done"
    /\ ~helper.must_cancel
    /\ helper.cursor = h_run.start
    /\ helper.ranges = {}
    /\ helper.status = "running"


\* The change c cancels by the claim: it has no range, or its range contains
\* the cursor.
HitsCursor(c, h) == c.range = None \/ InRange(h.cursor, c.range)

\* C26: while on_change is registered, what it does (on_change, which
\* OnChange applies to the Helper) with one content change that has no future
\* to match: it asks for the cancellation of the worker when the change has
\* no range or its range contains the cursor, and changes nothing when the
\* range starts after the cursor.  And while a cancellation is asked for, no
\* apply_insert_text call is made, and the worker's next step ends it with
\* the status error; an ended worker submits nothing.
C26_ForeignChangeAtCursorCancels ==
    /\ [](helper.registered =>
            \A c \in ContentChanges :
                Foreign(c, helper) =>
                    /\ HitsCursor(c, helper) => on_change(<<c>>, helper).h.must_cancel
                    /\ (c.range # None /\ c.range.start > helper.cursor) =>
                          on_change(<<c>>, helper).h = helper)
    /\ [][ /\ (helper.must_cancel /\ helper.pc # "created") =>
                 /\ h_run'.sent = h_run.sent
                 /\ helper'.pc # helper.pc =>
                       /\ helper'.pc = "finally"
                       /\ helper'.status = "error"
                       /\ ~helper'.task
           /\ helper.pc \in {"finally", "ended"} => h_run'.sent = h_run.sent
         ]_<<vars, libvars>>

\* C26 witness: a foreign change at the cursor cancelled the worker between
\* two deltas: one delta is in, the other was never submitted, the status is
\* error.
C26_Witness ==
    /\ h_run.asked = "on_change"
    /\ h_run.calls = 1
    /\ helper.pc = "ended"
    /\ helper.status = "error"
    /\ Len(h_run.deltas) = 2
    /\ Len(h_run.sent) = 1
    /\ helper.cursor = h_run.start + TextLen(h_run.deltas[1])


\* What apply_edit returns for the set rs and the change c: RangeSet(ranges)
\* of its local set, built in any order.
AppliedEdit(rs, c) ==
    UNION {RangeSetOf(order, {}) :
             order \in Orders(apply_edit_ranges(rs, c.range, TextLen(c.text)))}

\* C27 (as claimed): while on_change is registered, after on_change has
\* processed one content change that has no future to match and has a range,
\* the Helper's ranges are what apply_edit returns for the ranges before and
\* that change.
C27_ForeignChangeRebasesRanges ==
    helper.registered =>
        \A c \in ContentChanges :
            (Foreign(c, helper) /\ c.range # None) =>
                on_change(<<c>>, helper).h.ranges \in AppliedEdit(helper.ranges, c)

\* C27, what the code does: the delta "a" was inserted at offset 1 and its
\* range is 1..2; for the foreign insertion of "Y" at offset 0 apply_edit
\* returns 2..3, and on_change leaves the ranges at 1..2.
C27_Witness ==
    LET c == [text |-> "Y", range |-> [start |-> 0, end |-> 0]] IN
    /\ helper.registered
    /\ helper.ranges = {[start |-> 1, end |-> 2]}
    /\ Foreign(c, helper)
    /\ AppliedEdit(helper.ranges, c) = {{[start |-> 2, end |-> 3]}}
    /\ on_change(<<c>>, helper).h.ranges = {[start |-> 1, end |-> 2]}


\* How many times the current delta has been submitted.
Submissions == Attempts - helper.attempts

\* C28 (as claimed): a delta is submitted at most Attempts times; when the
\* retry delay after a not-applied edit is over, the worker submits the same
\* delta again at the same cursor while attempts are left, and with none left
\* it drops the delta and submits the provider's next delta.
C28_RetryThenNextDelta ==
    /\ [](helper.pc \in {"apply", "sleep", "wait_for"} => Submissions \in 1..Attempts)
    /\ [][(helper.pc = "sleep" /\ ~helper.must_cancel /\ helper'.pc # "sleep") =>
            IF helper.attempts > 0
            THEN /\ helper'.pc = "apply"
                 /\ helper'.delta = helper.delta
                 /\ helper'.attempts = helper.attempts - 1
                 /\ helper'.cursor = helper.cursor
            ELSE h_run.taken < Len(h_run.deltas) =>
                    /\ helper'.pc = "apply"
                    /\ h_run'.taken = h_run.taken + 1
                    /\ helper'.delta = h_run.deltas[h_run'.taken]
                    /\ helper'.attempts = Attempts - 1]_<<vars, libvars>>

\* C28, what the code does: the first delta was reported not applied
\* Attempts times, and the worker has ended with done, the second delta never
\* taken from the provider.
C28_Witness ==
    /\ helper.pc = "ended"
    /\ helper.status = "done"
    /\ helper.attempts = 0
    /\ h_run.taken = 1
    /\ Len(h_run.deltas) = 2
    /\ Len(h_run.sent) = 1
    /\ helper.ranges = {}


\* C29 (as claimed): when the wait for the confirmation of an applied edit
\* times out, the worker does not submit the delta again and does not take
\* anything back: it leaves the retry loop with the attempts it had, the
\* cursor and the ranges not behind where they were, and goes on to the
\* provider's following delta.
C29_TimeoutTreatedAsHandled ==
    [][(/\ helper.pc = "wait_for"
        /\ ~helper.must_cancel
        /\ helper.change_futures[helper.delta] = "pending"
        /\ helper'.pc # "wait_for") =>
            /\ helper'.pc = "next"
            /\ helper'.attempts = helper.attempts
            /\ helper'.cursor >= helper.cursor
            /\ helper.ranges \subseteq helper'.ranges
            /\ h_run'.sent = h_run.sent]_<<vars, libvars>>

\* C29, what the code does: the worker has ended with done after the last of
\* Attempts submissions of the first delta timed out (the finally block has
\* deleted its future), the cursor where it started and the second delta
\* never taken.
C29_Witness ==
    /\ helper.pc = "ended"
    /\ helper.status = "done"
    /\ helper.attempts = 0
    /\ helper.delta \in Deltas
    /\ helper.change_futures[helper.delta] = "none"
    /\ helper.cursor = h_run.start
    /\ h_run.taken = 1
    /\ Len(h_run.deltas) = 2


\* The worker task is done.
WorkerEnded == helper.pc \in {"ended", "never ran"}

\* C30 (as claimed): once the worker has ended, however it ended,
\* change_futures holds no future, and cancel() leaves the Helper as it is; a
\* cancel() after a cancel() that the worker has not yet seen changes nothing
\* either.
C30_NoDanglingFuture ==
    /\ WorkerEnded =>
          /\ \A d \in Deltas : helper.change_futures[d] = "none"
          /\ cancel_helper(helper) = helper
    /\ helper.must_cancel => cancel_helper(helper) = helper

\* C30, what the code does: the worker was cancelled while apply_insert_text
\* was in flight or during the retry delay and has ended with error, and the
\* future of its delta is still in change_futures, never resolved.
C30_Witness ==
    /\ helper.pc = "ended"
    /\ helper.status = "error"
    /\ h_run.asked = "caller"
    /\ helper.delta \in Deltas
    /\ helper.change_futures[helper.delta] = "pending"
    /\ cancel_helper(helper) = helper

\* C30, what the code does after the attempts are exhausted through edits
\* that were not applied: the worker has ended with done and the future of
\* the last submission is still in change_futures.
C30_WitnessExhausted ==
    /\ helper.pc = "ended"
    /\ helper.status = "done"
    /\ helper.attempts = 0
    /\ helper.delta \in Deltas
    /\ helper.change_futures[helper.delta] = "pending"


\* The character of a position in its line.
Character(pos) == pos % LineLen

\* C32: for a running Helper and a change that has no future to match and
\* whose range ends at or before the cursor: when the range ends on a line
\* above the cursor's, on_change moves the cursor's line by the newlines of
\* the new text less the lines the range spans and keeps its character; when
\* it ends on the cursor's line, the cursor stays; in both cases the status
\* stays and the Helper is not cancelled.  The cursor moves without the worker
\* moving only in this way.
C32_ChangeBeforeCursorShiftsLines ==
    /\ [](helper.registered =>
            \A c \in ContentChanges :
                (Foreign(c, helper) /\ c.range # None /\ c.range.end <= helper.cursor) =>
                    LET out == on_change(<<c>>, helper) IN
                    /\ out.raised = "none"
                    /\ out.h.status = helper.status
                    /\ out.h.must_cancel = helper.must_cancel
                    /\ Character(out.h.cursor) = Character(helper.cursor)
                    /\ Line(out.h.cursor) =
                          IF Line(c.range.end) < Line(helper.cursor)
                          THEN Line(helper.cursor) + Newlines(c.text)
                               - (Line(c.range.end) - Line(c.range.start))
                          ELSE Line(helper.cursor))
    /\ [][(helper'.cursor # helper.cursor /\ helper'.pc = helper.pc) =>
            /\ Character(helper'.cursor) = Character(helper.cursor)
            /\ helper'.status = helper.status
            /\ helper'.must_cancel = helper.must_cancel]_<<vars, libvars>>

\* C32 witness: the Helper runs, not cancelled, with its cursor two lines
\* below the line it started on, after two changes above it that added a line
\* each.
C32_Witness ==
    /\ running(helper)
    /\ helper.status = "running"
    /\ ~helper.must_cancel
    /\ Line(helper.cursor) = Line(h_run.start) + 2
    /\ Character(helper.cursor) = Character(h_run.start) + 1

\* A step of the worker task: the event loop runs it when it is ready, the
\* provider's stream of deltas ends, the peer answers apply_insert_text, the
\* sleep and the timeout of wait_for run out.
HWorker ==
    \/ HBegin
    \/ HNext
    \/ \E applied \in BOOLEAN : HApplied(applied)
    \/ HSlept
    \/ HConfirmed
    \/ HTimeout
    \/ HThoughts
    \/ HCancelled
    \/ HFinally

\* The Helper of SpecH with a worker task that is not held up for ever.
SpecHLive == InitH /\ [][NextH]_<<vars, libvars>> /\ WF_<<vars, libvars>>(HWorker)

\* C33 (as claimed): once the worker task is created it comes to its end and
\* the status is no longer running, whatever the peer answers and whether or
\* not confirmations arrive.
C33_WorkerTerminates ==
    (helper.pc = "created") ~> (WorkerEnded /\ helper.status # "running")

\* C33, what the code does: the worker task was cancelled before its first
\* step; it is done, none of _worker has run, and the status is still running.
C33_Witness ==
    /\ helper.pc = "never ran"
    /\ helper.status = "running"
    /\ helper.task
    /\ ~helper.registered

\* The part of C33 that holds: a worker that has taken its first step comes
\* to its end with the status done or error.
C33_StartedWorkerTerminates ==
    (helper.pc = "next") ~> (helper.pc = "ended" /\ helper.status \in {"done", "error"})

\* The Helper of SpecH with a provider whose delta source can fail, and a
\* worker task that is not held up for ever.
NextHP ==
    \/ NextH
    \/ HWait
    \/ HProviderFails

SpecHP == InitH /\ [][NextHP]_<<vars, libvars>> /\ WF_<<vars, libvars>>(HWorker \/ HWait)

\* C34 (as claimed): when the feed task of the provider's stream has failed
\* while the worker is at work, the Helper does not stay at status running:
\* its worker ends and the status is error (or the worker had ended before it
\* read the stream again).
C34_ProviderFailureEndsSession ==
    (h_run.feeder = "failed") ~> (helper.status # "running")

\* C34, what the code does: the feed task failed while the worker was waiting
\* in _wait_for_data; the worker still waits, the status is running, and
\* nobody has cancelled.
C34_Witness ==
    /\ h_run.feeder = "failed"
    /\ helper.pc = "blocked"
    /\ helper.status = "running"
    /\ ~helper.must_cancel
    /\ h_run.asked = "nobody"

\* The part of C34 that holds: a feed task that has failed while the worker
\* was not waiting for the stream ends the worker.
C34_FailureBeforeRead ==
    (h_run.feeder = "failed" /\ helper.pc \in {"next", "apply", "sleep", "wait_for"})
        ~> (helper.pc = "ended" /\ helper.status \in {"error", "done"})

\* C38 (as claimed): while on_change is registered, no notification makes
\* it raise, whatever the state of the futures: a content change whose text
\* has a future that is done already is passed over and the changes after it
\* are processed.
C38_CallbackNeverFails ==
    helper.registered =>
        \A changes \in ChangeLists : on_change(changes, helper).raised = "none"

\* C38, what the code does: the worker waits in wait_for, the future of its
\* delta has its result from a first content change and the worker has not
\* resumed; a second content change with the same text raises
\* InvalidStateError in on_change.
C38_Witness ==
    /\ helper.registered
    /\ helper.pc = "wait_for"
    /\ helper.delta = "a"
    /\ helper.change_futures["a"] = "done"
    /\ on_change(<<[text |-> "a", range |-> None]>>, helper).raised = "InvalidStateError"

\* ================================================= Helper and LspServer claims
\* A Helper in the LspServer's table: its worker, the peer, the change
\* notifications, and the caller's morph/cancel, morph/accept, morph/reject.
NextHR ==
    \/ OnRunHelper
    \/ OnCancel
    \/ OnAccept
    \/ OnReject
    \/ OnResolved
    \/ HBegin
    \/ HNext
    \/ \E applied \in BOOLEAN : HApplied(applied)
    \/ HSlept
    \/ HConfirmed
    \/ HTimeout
    \/ HThoughts
    \/ HCancelled
    \/ HFinally
    \/ \E changes \in ChangeLists : OnChange(changes)

SpecHR == InitH /\ [][NextHR]_<<vars, libvars>>

\* C31 (as claimed): the status becomes accepted or rejected only from done or
\* error; accept or reject of a Helper whose status is running leaves the
\* status running and sends no revert edit.
C31_ResolvedOnlyFromDoneOrError ==
    [][/\ (helper'.status \in {"accepted", "rejected"} /\ helper'.status # helper.status)
            => helper.status \in {"done", "error"}
       /\ helper.status = "running" => h_run'.reverts = h_run.reverts]_<<vars, libvars>>

\* C31, what the code does: the Helper was rejected while its worker was
\* waiting for a confirmation; the status is rejected, the revert edit for the
\* one range added so far was sent, and the worker is still at work.
C31_Witness ==
    /\ helper.status = "rejected"
    /\ helper.pc = "wait_for"
    /\ helper.task
    /\ h_run.reverts = 1
    /\ h_run.taken = 2

\* The step is the start of a morph/accept or morph/reject handler.
CallerResolves == h_run.handler = "none" /\ h_run'.handler \in {"accept", "reject"}

\* C39 (as claimed): once the status is accepted or rejected, no step of the
\* worker task and no change notification changes it; only the caller's
\* accept or reject may.
C39_ResolvedIsTerminal ==
    [][(helper.status \in {"accepted", "rejected"} /\ ~CallerResolves)
          => helper'.status = helper.status]_<<vars, libvars>>

\* C39, what the code does: the Helper was rejected when it had a range (the
\* revert edit was sent), its worker was cancelled and has ended, and the
\* status is error.
C39_Witness ==
    /\ h_run.reverts = 1
    /\ helper.pc = "ended"
    /\ helper.status = "error"
    /\ ~h_run.active

\* C40 (as claimed): the Helper leaves active_helpers only with the status
\* accepted or rejected; a morph/accept that accept() refuses leaves it in.
C40_RemovedOnlyWhenResolved ==
    [][(h_run.active /\ ~h_run'.active)
          => helper'.status \in {"accepted", "rejected"}]_<<vars, libvars>>

\* C40, what the code does: morph/accept came while the worker was waiting for
\* a confirmation; accept() refused, the status is running, the worker goes
\* on, and the Helper is no longer in active_helpers: no morph/cancel,
\* morph/accept or morph/reject reaches it any more.
C40_Witness ==
    /\ ~h_run.active
    /\ h_run.handler = "none"
    /\ helper.status = "running"
    /\ helper.pc = "wait_for"
    /\ ~ENABLED OnCancel
    /\ ~ENABLED OnAccept
    /\ ~ENABLED OnReject

\* ================================================= engine claims, continued
\* The steps the event loop takes by itself: _handle_message on the messages
\* of a datagram received, and the steps of the tasks that are ready (a
\* handler that was dispatched comes to an end).
EngineStep ==
    /\ \/ \E req \in PeerRequests : HandleRequest(req)
       \/ HandleBadFrame
       \/ \E t \in DOMAIN tasks : TaskStart(t)
       \/ \E t \in DOMAIN tasks, o \in HandlerOutcomes : TaskFinish(t, o)
       \/ InitTaskStart
    /\ UNCHANGED libvars

\* The inbound side with an event loop that is not held up for ever.
SpecInLive == InitAll /\ [][NextIn]_<<vars, libvars>> /\ WF_<<vars, libvars>>(EngineStep)

\* A request with this id is in their_requests.
InFlight(id) == \E t \in their_requests : tasks[t].id = id

\* C35 (as claimed): whenever a request with an id is in their_requests, a
\* Response with that id is written to the transport then or later, unless
\* the serve loop has come to its end before.
C35_EveryRequestAnswered ==
    \A id \in PeerIds :
        InFlight(id) ~> ((wire.type = "response" /\ wire.id = id) \/ loop = "ended")

\* C35, what the code does: the task of a request with an id was cancelled
\* by _shutdown() in the datagram that created it and has not taken its
\* first step; that step ends it with nothing written.
C35_Witness ==
    /\ status = "shutdown"
    /\ loop = "recv"
    /\ wire = NoWrite
    /\ \E t \in their_requests :
          /\ tasks[t].st = "created"
          /\ tasks[t].must_cancel
          /\ tasks[t].method = "foo"

\* The part of C35 that holds: a request whose handler was dispatched is
\* answered with a Response with its id, however the handler ends.
C35_DispatchedRequestAnswered ==
    \A id \in PeerIds :
        (\E t \in their_requests : tasks[t].id = id /\ tasks[t].st = "running")
            ~> (wire.type = "response" /\ wire.id = id)

\* The outbound side with callers of notify() as well.
NextCall ==
    \/ Next
    \/ (\E m \in OutMethods : Notify(m)) /\ UNCHANGED libvars

SpecCall == InitAll /\ [][NextCall]_<<vars, libvars>>

\* C36 (as claimed): in the shutdown state no step issues a request id, adds
\* an entry to my_requests, or writes anything but a Response to the
\* transport.
C36_NoCallsAfterShutdown ==
    [][status = "shutdown" =>
          /\ request_counter' = request_counter
          /\ Range(my_requests') \subseteq Range(my_requests)
          /\ wire' # wire => wire'.type = "response"]_<<vars, libvars>>

\* C36, what the code does: in SendInit mode, in the shutdown state, a caller's
\* request("initialize") was written to the transport and its id is in
\* my_requests; it is not the request of _send_init.
C36_Witness ==
    /\ status = "shutdown"
    /\ init_mode = "SendInit"
    /\ wire.type = "request"
    /\ wire.code = "initialize"
    /\ wire.id # init_id
    /\ wire.id \in Range(my_requests)
    /\ init_task = "cancelled"

\* The part of C36 that holds: in the shutdown state nothing is sent by
\* notify(), nor by request() in the other modes or for another method.
C36_OtherCallsFail ==
    [][status = "shutdown" =>
          /\ wire' # wire => (wire'.type = "response"
                              \/ (init_mode = "SendInit" /\ wire' = RequestMsg(request_counter', "initialize")))
          /\ request_counter' # request_counter
                => (init_mode = "SendInit" /\ wire' = RequestMsg(request_counter', "initialize"))]_<<vars, libvars>>

\* The initialize requests of the peer.
InitRequests == {r \in PeerRequests : r.method = "initialize"}

\* The outbound side with a peer that also sends initialize requests.
NextLife ==
    \/ Next
    \/ (\E req \in InitRequests : HandleRequest(req)) /\ UNCHANGED libvars

SpecLife == InitAll /\ [][NextLife]_<<vars, libvars>>

\* preinit, running, shutdown in their order.
StatusRank(st) == CASE st = "preinit" -> 0 [] st = "running" -> 1 [] st = "shutdown" -> 2

\* C37: no step of the engine moves the status backwards: running never
\* becomes preinit again, and shutdown stays shutdown.
C37_StatusMovesForward ==
    [][StatusRank(status') >= StatusRank(status)]_<<vars, libvars>>

\* C37 witness: in SendInit mode the Response to the engine's initialize
\* request has been handled, the _send_init task was cancelled by _shutdown()
\* before it could go on, and the status is shutdown.
C37_Witness ==
    /\ init_mode = "SendInit"
    /\ status = "shutdown"
    /\ init_task = "cancelled"
    /\ init_id # NoId
    /\ init_id \notin Range(my_requests)
    /\ loop = "recv"

\* C37 witness for ExpectInit: an initialize request is handled in the
\* shutdown state.
C37_WitnessLateInitialize ==
    /\ init_mode = "ExpectInit"
    /\ status = "shutdown"
    /\ wire = ResponseMsg(1, "invalid_request")
    /\ nmsgs = 3

====
